---- MODULE Spec2Model ----
(***************************************************************************)
(* A model of the USB PD document parser: the ToC parser (parse_toc.py),   *)
(* the section parser (parse_sections.py) and the reconciler               *)
(* (validate_and_report.py).                                               *)
(*                                                                         *)
(* Python strings are sequences of one-character strings, so that          *)
(* splitting, parsing, rendering, trimming and comparing are computed and  *)
(* not assumed.  Python's None is the value None.                          *)
(***************************************************************************)
EXTENDS Integers, Sequences, FiniteSets, TLC

VARIABLES
    prog,                \* which program or function runs in this behaviour
    pc,                  \* its position
    toc_ids,             \* compare_toc_vs_spec: ids of the ToC rows
    spec_ids,            \* compare_toc_vs_spec: ids of the section rows
    missing,             \* compare_toc_vs_spec: result
    extra,               \* compare_toc_vs_spec: result
    order_mismatches,    \* compare_toc_vs_spec: result
    counts,              \* compare_toc_vs_spec: result
    section_ids,         \* detect_gaps: the ids of one outline
    gaps,                \* detect_gaps: result
    raw_title,           \* normalize_title: argument
    title,               \* normalize_title: result
    title_again,         \* normalize_title applied to its own result
    structured_sections, \* parse_sections.main: result of build_sections
    page_based_sections, \* parse_sections.main: result of create_page_based_sections
    sections,            \* parse_sections.main: the sections written
    approach,            \* parse_sections.main: the approach it reports
    pages,               \* the page texts of the document
    headings,            \* (section_id, title, page) triples
    entries,             \* the records a builder returns
    findings,            \* find_headings: the candidates before deduplication
    toc_text,            \* parse_toc_entries: the text of the ToC region
    page_count,          \* parse_toc_entries: its argument num_pages
    candidate_title,     \* is_valid_section_title: argument
    title_valid,         \* is_valid_section_title: result
    disk,                \* validate_and_report.main: the files it reads and writes
    toc_rows,            \* perform_validation: rows of usb_pd_toc.jsonl
    spec_rows,           \* perform_validation: rows of usb_pd_spec.jsonl
    errors_toc,          \* perform_validation: schema errors of the ToC rows
    errors_spec,         \* perform_validation: schema errors of the section rows
    compared,            \* perform_validation: counts, differences and gaps
    result,              \* perform_validation: the ValidationResult
    exception,           \* validate_and_report.main: the exception it re-raises
    report,              \* the report file written, with its path
    returned             \* the list objects the last call returned, by name

ReconcileVars == <<toc_ids, spec_ids, missing, extra, order_mismatches, counts>>

GapVars == <<section_ids, gaps>>

TitleVars == <<raw_title, title, title_again>>

MainVars == <<structured_sections, page_based_sections, sections, approach>>

BuildVars == <<pages, headings, entries>>

ScanVars == <<findings, toc_text, page_count>>

ValidVars == <<candidate_title, title_valid>>

ReportVars == <<disk, toc_rows, spec_rows, errors_toc, errors_spec, compared, result,
                exception, report>>

FrameVars == <<returned>>

vars == <<prog, pc, ReconcileVars, GapVars, TitleVars, MainVars, BuildVars, ScanVars, ValidVars, ReportVars, FrameVars>>

(***************************************************************************)
(* Characters and strings                                                  *)
(***************************************************************************)
None == <<"None">>

\* A local variable of a function: not yet assigned, or holding a value.
Unbound == [bound |-> FALSE]

Bound(v) == [bound |-> TRUE, value |-> v]

\* The outcome of a call: the value it returns or the exception it raises.
Returns(v) == [raises |-> FALSE, value |-> v]

Raises(e) == [raises |-> TRUE, exception |-> e]

Digits == {"0", "1", "2", "3", "4", "5", "6", "7", "8", "9"}

\* Code points of the characters section ids are made of.
Ord(c) ==
    CASE c = "." -> 46
      [] c = "0" -> 48 [] c = "1" -> 49 [] c = "2" -> 50 [] c = "3" -> 51
      [] c = "4" -> 52 [] c = "5" -> 53 [] c = "6" -> 54 [] c = "7" -> 55
      [] c = "8" -> 56 [] c = "9" -> 57
      [] c = "_" -> 95
      [] c = "a" -> 97 [] c = "e" -> 101 [] c = "g" -> 103 [] c = "p" -> 112

DigitVal(c) == Ord(c) - 48

Min(a, b) == IF a <= b THEN a ELSE b

Max(a, b) == IF a >= b THEN a ELSE b

\* Python's < on str: by code point, a proper prefix is smaller.
RECURSIVE StrLess(_, _)
StrLess(s, t) ==
    IF t = <<>> THEN FALSE
    ELSE IF s = <<>> THEN TRUE
    ELSE IF Head(s) = Head(t) THEN StrLess(Tail(s), Tail(t))
    ELSE Ord(Head(s)) < Ord(Head(t))

\* Python's < on tuples and lists of int.
RECURSIVE IntsLess(_, _)
IntsLess(a, b) ==
    IF b = <<>> THEN FALSE
    ELSE IF a = <<>> THEN TRUE
    ELSE IF Head(a) = Head(b) THEN IntsLess(Tail(a), Tail(b))
    ELSE Head(a) < Head(b)

\* s.split(sep) for a one-character sep: the parts between the occurrences
\* of sep.
Split(s, sep) ==
    LET cuts == {i \in 1..Len(s) : s[i] = sep}
        cut(k) == IF k = 0 THEN 0
                  ELSE IF k > Cardinality(cuts) THEN Len(s) + 1
                  ELSE CHOOSE i \in cuts : Cardinality({j \in cuts : j < i}) = k - 1
    IN  [k \in 1..(Cardinality(cuts) + 1) |-> SubSeq(s, cut(k - 1) + 1, cut(k) - 1)]

\* sep.join(parts)
RECURSIVE Join(_, _)
Join(parts, sep) ==
    IF parts = <<>> THEN <<>>
    ELSE IF Len(parts) = 1 THEN parts[1]
    ELSE parts[1] \o sep \o Join(Tail(parts), sep)

\* s.count(c)
Count(s, c) == Cardinality({i \in 1..Len(s) : s[i] = c})

Contains(s, c) == \E i \in 1..Len(s) : s[i] = c

Range(s) == {s[i] : i \in 1..Len(s)}

\* parts[:-1]
DropLast(parts) == SubSeq(parts, 1, Len(parts) - 1)

\* sorted(S) for a set S of strings.
RECURSIVE SortedStrings(_)
SortedStrings(S) ==
    IF S = {} THEN <<>>
    ELSE LET m == CHOOSE x \in S : \A y \in S \ {x} : StrLess(x, y)
         IN  <<m>> \o SortedStrings(S \ {m})

\* TRUE, once the value v is computed: a loop that carries a list from step
\* to step computes it at each step, as the code does, and not at its end.
Evaluated(v) == v = v

SetMax(S) == CHOOSE x \in S : \A y \in S : y <= x

SetMin(S) == CHOOSE x \in S : \A y \in S : x <= y

\* The characters str.strip() removes and \\s matches, among those used here.
Whitespace == {" ", "\t", "\n"}

\* s.lstrip(chars), s.rstrip(chars), s.strip(chars) for a set of characters.
RECURSIVE LStrip(_, _)
LStrip(s, chars) ==
    IF s # <<>> /\ Head(s) \in chars THEN LStrip(Tail(s), chars) ELSE s

RECURSIVE RStrip(_, _)
RStrip(s, chars) ==
    IF s # <<>> /\ s[Len(s)] \in chars THEN RStrip(DropLast(s), chars) ELSE s

Strip(s, chars) == RStrip(LStrip(s, chars), chars)

\* The length of the run of characters of chars that s starts with.
RECURSIVE RunLength(_, _)
RunLength(s, chars) ==
    IF s # <<>> /\ Head(s) \in chars THEN 1 + RunLength(Tail(s), chars) ELSE 0

\* re.sub of a pattern that matches every run of at least least characters of
\* chars (greedily) by the string repl.
RECURSIVE SubRuns(_, _, _, _)
SubRuns(s, chars, least, repl) ==
    LET n == RunLength(s, chars)
    IN  IF s = <<>> THEN <<>>
        ELSE IF n >= least
             THEN repl \o SubRuns(SubSeq(s, n + 1, Len(s)), chars, least, repl)
        ELSE IF n > 0
             THEN SubSeq(s, 1, n) \o SubRuns(SubSeq(s, n + 1, Len(s)), chars, least, repl)
        ELSE <<Head(s)>> \o SubRuns(Tail(s), chars, least, repl)

IsDigits(s) == s # <<>> /\ \A i \in 1..Len(s) : s[i] \in Digits

\* int(s) for a string of decimal digits.
RECURSIVE ParseInt(_)
ParseInt(s) ==
    IF s = <<>> THEN 0
    ELSE 10 * ParseInt(DropLast(s)) + DigitVal(s[Len(s)])

\* int(s) for a string: white space at the ends is dropped, a sign may come
\* first, and the digits may be separated by single underscores; anything
\* else raises ValueError.
int_of(s) ==
    LET t == Strip(s, Whitespace)
        signed == t # <<>> /\ t[1] \in {"+", "-"}
        body == IF signed THEN Tail(t) ELSE t
        is_digit(c) == c \in Digits
        well_formed ==
            /\ body # <<>>
            /\ body[1] \in Digits /\ body[Len(body)] \in Digits
            /\ \A i \in 1..Len(body) : body[i] \in Digits \cup {"_"}
            /\ \A i \in 1..(Len(body) - 1) : ~(body[i] = "_" /\ body[i + 1] = "_")
        magnitude == ParseInt(SelectSeq(body, is_digit))
    IN  IF ~well_formed THEN Raises("ValueError")
        ELSE Returns(IF t[1] = "-" THEN 0 - magnitude ELSE magnitude)

\* tuple(int(p) for p in sid.split("."))
numeric_key(sid) ==
    LET parts == Split(sid, ".")
    IN  [i \in 1..Len(parts) |-> ParseInt(parts[i])]

(***************************************************************************)
(* validate_and_report.py: the reconciler                                  *)
(***************************************************************************)
\* spec_order_index = {sid: i for i, sid in enumerate(spec_ids)}: a later
\* occurrence overwrites an earlier one; indexes are 0-based.
spec_order_index(ids, sid) ==
    (CHOOSE i \in 1..Len(ids) :
        ids[i] = sid /\ \A j \in (i + 1)..Len(ids) : ids[j] # sid) - 1

\* A reconciler that forgets the set difference for the missing list.
find_missing_and_extra_sections_no_difference(t_ids, s_ids) ==
    <<SortedStrings(Range(t_ids)), SortedStrings(Range(s_ids) \ Range(t_ids))>>

find_missing_and_extra_sections(t_ids, s_ids) ==
    <<SortedStrings(Range(t_ids) \ Range(s_ids)),
      SortedStrings(Range(s_ids) \ Range(t_ids))>>

\* The loop of find_order_mismatches from position k of toc_ids on, with the
\* loop's last_index and the mismatches appended so far.
RECURSIVE order_loop(_, _, _, _, _)
order_loop(t_ids, s_ids, k, last_index, acc) ==
    IF k > Len(t_ids) THEN acc
    ELSE IF t_ids[k] \in Range(s_ids)
         THEN LET idx == spec_order_index(s_ids, t_ids[k])
              IN  order_loop(t_ids, s_ids, k + 1, idx,
                             IF idx < last_index THEN Append(acc, t_ids[k]) ELSE acc)
         ELSE order_loop(t_ids, s_ids, k + 1, last_index, acc)

\* An order check that keeps the largest index seen and not the last one.
RECURSIVE order_loop_max(_, _, _, _, _)
order_loop_max(t_ids, s_ids, k, last_index, acc) ==
    IF k > Len(t_ids) THEN acc
    ELSE IF t_ids[k] \in Range(s_ids)
         THEN LET idx == spec_order_index(s_ids, t_ids[k])
              IN  order_loop_max(t_ids, s_ids, k + 1, Max(idx, last_index),
                                 IF idx < last_index THEN Append(acc, t_ids[k]) ELSE acc)
         ELSE order_loop_max(t_ids, s_ids, k + 1, last_index, acc)

find_order_mismatches_max(t_ids, s_ids) ==
    order_loop_max(t_ids, s_ids, 1, -1, <<>>)

\* An order check that never assigns last_index in its loop.
RECURSIVE order_loop_stale(_, _, _, _, _)
order_loop_stale(t_ids, s_ids, k, last_index, acc) ==
    IF k > Len(t_ids) THEN acc
    ELSE IF t_ids[k] \in Range(s_ids)
         THEN LET idx == spec_order_index(s_ids, t_ids[k])
              IN  order_loop_stale(t_ids, s_ids, k + 1, last_index,
                                   IF idx < last_index THEN Append(acc, t_ids[k]) ELSE acc)
         ELSE order_loop_stale(t_ids, s_ids, k + 1, last_index, acc)

find_order_mismatches_stale(t_ids, s_ids) ==
    order_loop_stale(t_ids, s_ids, 1, -1, <<>>)

find_order_mismatches(t_ids, s_ids) ==
    order_loop(t_ids, s_ids, 1, -1, <<>>)

\* The two lists a call was given, as the call leaves them, and the list
\* objects it returns, by the names the code gives them.  set(toc_ids),
\* sorted(list(...)), the dict comprehension and the loop read the parameters
\* and build new objects; neither function calls a method of a parameter or
\* assigns to an item of it.
find_missing_and_extra_sections_frame(t_ids, s_ids) ==
    [toc_ids |-> t_ids, spec_ids |-> s_ids, returned |-> {"missing", "extra"}]

find_order_mismatches_frame(t_ids, s_ids) ==
    [toc_ids |-> t_ids, spec_ids |-> s_ids, returned |-> {"order_mismatches"}]

\* Counts with the lengths of missing and extra in each other's place.
Counts_swapped(t_ids, s_ids, mis, ext, ord) ==
    [toc_total |-> Len(t_ids), spec_total |-> Len(s_ids),
     missing_in_spec |-> Len(ext), extra_in_spec |-> Len(mis),
     order_errors |-> Len(ord)]

Counts(t_ids, s_ids, mis, ext, ord) ==
    [toc_total |-> Len(t_ids), spec_total |-> Len(s_ids),
     missing_in_spec |-> Len(mis), extra_in_spec |-> Len(ext),
     order_errors |-> Len(ord)]

NoCounts == [toc_total |-> 0, spec_total |-> 0, missing_in_spec |-> 0,
             extra_in_spec |-> 0, order_errors |-> 0]

\* str(n) for n >= 0.
RECURSIVE RenderInt(_)
RenderInt(n) ==
    LET d == CHOOSE c \in Digits : DigitVal(c) = n % 10
    IN  IF n < 10 THEN <<d>> ELSE RenderInt(n \div 10) \o <<d>>

\* Python's < on the sort keys used here: a key is a tuple whose components
\* are tuples (or lists) of int; an int component n is written <<n>>.
RECURSIVE KeyLess(_, _)
KeyLess(a, b) ==
    IF b = <<>> THEN FALSE
    ELSE IF a = <<>> THEN TRUE
    ELSE IF Head(a) = Head(b) THEN KeyLess(Tail(a), Tail(b))
    ELSE IntsLess(Head(a), Head(b))

\* sorted(seq, key=...) and list.sort(key=...): stable; keys[i] is the key of
\* seq[i].
StableSort(seq, keys) ==
    LET n == Len(seq)
        before(j, i) == KeyLess(keys[j], keys[i]) \/ (~KeyLess(keys[i], keys[j]) /\ j < i)
        rank(i) == Cardinality({j \in 1..n : before(j, i)})
    IN  [p \in 1..n |-> seq[CHOOSE i \in 1..n : rank(i) = p - 1]]

Root == <<"<", "r", "o", "o", "t", ">">>

TopLevel == <<"<", "t", "o", "p", "-", "l", "e", "v", "e", "l", ">">>

\* ".".join(sid.split(".")[:-1]) if "." in sid else "<root>"
gap_parent(sid) ==
    IF Contains(sid, ".") THEN Join(DropLast(Split(sid, ".")), <<".">>) ELSE Root

\* The keys of by_parent in insertion order: each parent once, at its first
\* appearance.
RECURSIVE parents_in_order(_, _)
parents_in_order(ids, seen) ==
    IF ids = <<>> THEN <<>>
    ELSE LET p == gap_parent(Head(ids))
         IN  IF p \in seen THEN parents_in_order(Tail(ids), seen)
             ELSE <<p>> \o parents_in_order(Tail(ids), seen \cup {p})

\* by_parent[parent]: the ids under it, in input order.
group_sections_by_parent(ids, parent) ==
    LET under(sid) == gap_parent(sid) = parent
    IN  SelectSeq(ids, under)

\* A last component that gives 0 where get_numeric_last_component gives -1.
get_numeric_last_component_zero(sid) ==
    LET parts == Split(sid, ".")
        number == int_of(parts[Len(parts)])
    IN  IF number.raises THEN 0 ELSE number.value

\* try: int(section_id.split(".")[-1]); except (ValueError, IndexError): -1
get_numeric_last_component(sid) ==
    LET parts == Split(sid, ".")
        number == int_of(parts[Len(parts)])
    IN  IF number.raises /\ number.exception \in {"ValueError", "IndexError"} THEN -1
        ELSE number.value

\* A gap finder that compares with the two ends of the sequence only.
find_missing_numbers_ends_only(nums) ==
    IF nums = <<>> THEN <<>>
    ELSE LET absent(n) == n # nums[1] /\ n # nums[Len(nums)]
             count == nums[Len(nums)] - nums[1] + 1
         IN  SelectSeq([i \in 1..count |-> nums[1] + i - 1], absent)

find_missing_numbers_in_sequence(nums) ==
    IF nums = <<>> THEN <<>>
    ELSE LET absent(n) == n \notin Range(nums)
             count == nums[Len(nums)] - nums[1] + 1
         IN  SelectSeq([i \in 1..count |-> nums[1] + i - 1], absent)

\* None, or the pair (parent_label, gap_description).
process_parent_group(parent, children) ==
    IF Len(children) < 2 THEN None
    ELSE
    LET depth == Len(Split(children[1], "."))
        at_depth(c) == Len(Split(c, ".")) = depth
        same_depth == SelectSeq(children, at_depth)
        sorted_children ==
            StableSort(same_depth,
                       [i \in 1..Len(same_depth) |->
                            <<<<get_numeric_last_component(same_depth[i])>>>>])
        numeric(c) == get_numeric_last_component(c) >= 0
        kept == SelectSeq(sorted_children, numeric)
        nums == [i \in 1..Len(kept) |-> get_numeric_last_component(kept[i])]
        missing_nums == find_missing_numbers_in_sequence(nums)
        missing_ids == [i \in 1..Len(missing_nums) |->
                            IF parent # Root
                            THEN parent \o <<".">> \o RenderInt(missing_nums[i])
                            ELSE RenderInt(missing_nums[i])]
        parent_label == IF parent # Root THEN parent ELSE TopLevel
    IN  IF Len(same_depth) < 2 THEN None
        ELSE IF nums = <<>> THEN None
        ELSE IF missing_nums = <<>> THEN None
        ELSE <<parent_label, Join(missing_ids, <<",", " ">>)>>

\* The list detect_gaps was given, as the call leaves it, and the list it
\* returns.  group_sections_by_parent appends the ids to lists of its own, one
\* for each parent; process_parent_group copies the children of the depth of
\* the first child to same_depth and sorts that copy in place.
detect_gaps_frame(ids) == [section_ids |-> ids, returned |-> {"gaps"}]

detect_gaps(ids) ==
    LET parents == parents_in_order(ids, {})
        infos == [i \in 1..Len(parents) |->
                    process_parent_group(parents[i],
                                         group_sections_by_parent(ids, parents[i]))]
        found(info) == info # None
    IN  SelectSeq(infos, found)


(***************************************************************************)
(* parse_toc.py: titles                                                    *)
(***************************************************************************)
\* A normalization that does not trim the dots and spaces left at the ends.
normalize_title_untrimmed(raw) ==
    SubRuns(SubRuns(Strip(raw, Whitespace), {"."}, 2, <<" ">>), Whitespace, 1, <<" ">>)

normalize_title(raw) ==
    LET stripped == Strip(raw, Whitespace)
        no_leaders == SubRuns(stripped, {"."}, 2, <<" ">>)
        collapsed == SubRuns(no_leaders, Whitespace, 1, <<" ">>)
    IN  Strip(collapsed, {" ", "."})

(***************************************************************************)
(* parse_sections.py: the choice between the two builds                    *)
(***************************************************************************)
MinStructuredSections == 100

\* len(structured_sections) < 100: the page-based build is made
needs_page_based(structured) == Len(structured) < MinStructuredSections

\* A choice that takes the page-based build from double the count on.
prefers_page_based_from_double(structured, page_based) ==
    Len(page_based) >= Len(structured) * 2

\* len(page_based_sections) > len(structured_sections) * 2
\* A selection that asks one page-based section more.
prefers_page_based_above_one(structured, page_based) ==
    Len(page_based) > Len(structured) * 2 + 1

prefers_page_based(structured, page_based) ==
    Len(page_based) > Len(structured) * 2

(***************************************************************************)
(* Regular expressions, as the re module matches them                      *)
(***************************************************************************)
UpperCase ==
    <<"A", "B", "C", "D", "E", "F", "G", "H", "I", "J", "K", "L", "M", "N",
      "O", "P", "Q", "R", "S", "T", "U", "V", "W", "X", "Y", "Z">>

LowerCase ==
    <<"a", "b", "c", "d", "e", "f", "g", "h", "i", "j", "k", "l", "m", "n",
      "o", "p", "q", "r", "s", "t", "u", "v", "w", "x", "y", "z">>

UpperLetters == {UpperCase[i] : i \in 1..Len(UpperCase)}

LowerLetters == {LowerCase[i] : i \in 1..Len(LowerCase)}

\* The characters c.isalpha() holds of, among those used here.
Letters == UpperLetters \cup LowerLetters

\* \w
WordChars == Letters \cup Digits \cup {"_"}

\* c.lower(): what re.IGNORECASE compares.
LowerOf ==
    [c \in UpperLetters |-> LowerCase[CHOOSE i \in 1..Len(UpperCase) : UpperCase[i] = c]]

Lower(c) == IF c \in UpperLetters THEN LowerOf[c] ELSE c

LowerStr(s) == [i \in 1..Len(s) |-> Lower(s[i])]

\* A position pos of s is the one before s[pos]; Len(s) + 1 is the end.
\* ^ and $ under re.MULTILINE, and \b.
AtLineStart(s, pos) == pos = 1 \/ s[pos - 1] = "\n"

AtLineEnd(s, pos) == pos = Len(s) + 1 \/ s[pos] = "\n"

AtWordBoundary(s, pos) ==
    (pos > 1 /\ s[pos - 1] \in WordChars) # (pos <= Len(s) /\ s[pos] \in WordChars)

\* The literal sub matches at pos.
OccursAt(s, sub, pos) ==
    /\ pos + Len(sub) - 1 <= Len(s)
    /\ SubSeq(s, pos, pos + Len(sub) - 1) = sub

\* re.search of the literal sub.
Occurs(s, sub) == \E pos \in 1..Len(s) : OccursAt(s, sub, pos)

\* A character class: [chars], or [^chars] when negated.
Class(chars) == [negated |-> FALSE, chars |-> chars]

NotClass(chars) == [negated |-> TRUE, chars |-> chars]

InClass(c, class) == (c \in class.chars) # class.negated

\* The position after the longest run of characters of chars from pos on:
\* where a greedy [chars]* stops first.
RECURSIVE RunEnd(_, _, _)
RunEnd(s, pos, chars) ==
    IF pos <= Len(s) /\ s[pos] \in chars THEN RunEnd(s, pos + 1, chars) ELSE pos

\* The position after the longest match of \d+(?:\.\d+)* at pos, 0 if there is
\* none.  The patterns here continue with \s+, which no shorter match allows:
\* a shorter one ends before a digit or a dot.
RECURSIVE SidEnd(_, _)
SidEnd(s, pos) ==
    LET d == RunEnd(s, pos, Digits)
    IN  IF d = pos THEN 0
        ELSE IF d <= Len(s) /\ s[d] = "." /\ SidEnd(s, d + 1) # 0
             THEN SidEnd(s, d + 1)
        ELSE d

(***************************************************************************)
(* parse_sections.py: find_headings                                        *)
(***************************************************************************)
\* \s+[A-Z] at pos: the position of the capital, 0 if there is no match.
SpaceThenCapital(s, pos) ==
    LET w == RunEnd(s, pos, Whitespace)
    IN  IF w > pos /\ w <= Len(s) /\ s[w] \in UpperLetters THEN w ELSE 0

\* The searches of find_actual_document_start in one page text.
StartsChapterOne(s) ==
    \E pos \in 1..Len(s) :
        /\ AtLineStart(s, pos)
        /\ s[pos] = "1"
        /\ LET w == SpaceThenCapital(s, pos + 1)
           IN  w # 0 /\ w < Len(s) /\ s[w + 1] \in LowerLetters

MentionsChapterOne(s) ==
    LET low == LowerStr(s)
    IN  \E pos \in 1..Len(s) :
            /\ OccursAt(low, <<"c", "h", "a", "p", "t", "e", "r">>, pos)
            /\ LET w == RunEnd(s, pos + 7, Whitespace)
               IN  w > pos + 7 /\ w <= Len(s) /\ s[w] = "1"

StartsSectionOneOne(s) ==
    \E pos \in 1..Len(s) :
        /\ AtLineStart(s, pos)
        /\ OccursAt(s, <<"1", ".", "1">>, pos)
        /\ SpaceThenCapital(s, pos + 3) # 0

StartsNumberedSection(s) ==
    \E pos \in 1..Len(s) :
        /\ AtLineStart(s, pos)
        /\ LET d == RunEnd(s, pos, Digits)
               e == RunEnd(s, d + 1, Digits)
           IN  /\ d > pos /\ d <= Len(s) /\ s[d] = "."
               /\ e > d + 1
               /\ SpaceThenCapital(s, e) # 0

StartsNumberedLine(s) ==
    \E pos \in 1..Len(s) :
        /\ AtLineStart(s, pos)
        /\ LET d == RunEnd(s, pos, Digits)
           IN  d > pos /\ SpaceThenCapital(s, d) # 0

LooksLikeContent(s) ==
    \/ StartsChapterOne(s)
    \/ MentionsChapterOne(s)
    \/ StartsSectionOneOne(s)
    \/ StartsNumberedSection(s)
    \/ StartsNumberedLine(s)

DefaultStartPage == 5

\* A scan start that is always the first page.
find_actual_document_start_from_first(pgs) == 0

\* The 0-based index of the first page that looks like content.
find_actual_document_start(pgs) ==
    IF \E i \in 1..Len(pgs) : LooksLikeContent(pgs[i])
    THEN (CHOOSE i \in 1..Len(pgs) :
            /\ LooksLikeContent(pgs[i])
            /\ \A j \in 1..(i - 1) : ~LooksLikeContent(pgs[j])) - 1
    ELSE DefaultStartPage

\* The literal revision_patterns, lower-cased as re.IGNORECASE compares them.
RevisionPhrases ==
    {<<"i", "n", "i", "t", "i", "a", "l", " ", "r", "e", "l", "e", "a", "s", "e">>,
     <<"i", "n", "c", "l", "u", "d", "i", "n", "g", " ", "e", "r", "r", "a", "t", "a">>,
     <<"e", "d", "i", "t", "o", "r", "i", "a", "l", " ", "c", "h", "a", "n", "g", "e", "s">>,
     <<"r", "e", "v", "i", "s", "i", "o", "n", " ", "v", "e", "r", "s", "i", "o", "n">>,
     <<"t", "h", "i", "s", " ", "v", "e", "r", "s", "i", "o", "n", " ", "i", "n", "c", "o", "r", "p", "o", "r", "a", "t", "e", "s">>,
     <<"r", "e", "v", "i", "s", "i", "o", "n", " ", "h", "i", "s", "t", "o", "r", "y">>,
     <<"h", "e", "x", " ", "d", "a", "t", "a">>,
     <<"t", "a", "b", "l", "e", " ", "o", "f", " ", "c", "o", "n", "t", "e", "n", "t", "s">>,
     <<"l", "i", "s", "t", " ", "o", "f", " ", "f", "i", "g", "u", "r", "e", "s">>,
     <<"l", "i", "s", "t", " ", "o", "f", " ", "t", "a", "b", "l", "e", "s">>}

\* \b(19|20)\d{2}\b
HasYear(s) ==
    \E pos \in 1..Len(s) :
        /\ AtWordBoundary(s, pos)
        /\ OccursAt(s, <<"1", "9">>, pos) \/ OccursAt(s, <<"2", "0">>, pos)
        /\ pos + 3 <= Len(s)
        /\ s[pos + 2] \in Digits
        /\ s[pos + 3] \in Digits
        /\ AtWordBoundary(s, pos + 4)

\* ECNs?:
HasEcns(s) ==
    LET low == LowerStr(s)
    IN  \/ Occurs(low, <<"e", "c", "n", ":">>)
        \/ Occurs(low, <<"e", "c", "n", "s", ":">>)

\* Page \d+
HasPageNumber(s) ==
    LET low == LowerStr(s)
    IN  \E pos \in 1..Len(s) :
            /\ OccursAt(low, <<"p", "a", "g", "e", " ">>, pos)
            /\ pos + 5 <= Len(s)
            /\ s[pos + 5] \in Digits

\* Universal Serial Bus.*Specification
HasSpecificationName(s) ==
    LET low == LowerStr(s)
    IN  \E pos \in 1..Len(s), rest \in 1..Len(s) :
            /\ OccursAt(low, <<"u", "n", "i", "v", "e", "r", "s", "a", "l", " ", "s", "e", "r", "i", "a", "l", " ", "b", "u", "s">>, pos)
            /\ rest >= pos + 20
            /\ OccursAt(low, <<"s", "p", "e", "c", "i", "f", "i", "c", "a", "t", "i", "o", "n">>, rest)
            /\ \A k \in (pos + 20)..(rest - 1) : s[k] # "\n"

MatchesRevisionPattern(s) ==
    LET low == LowerStr(s)
    IN  \/ HasYear(s)
        \/ \E phrase \in RevisionPhrases : Occurs(low, phrase)
        \/ HasEcns(s)
        \/ HasPageNumber(s)
        \/ HasSpecificationName(s)

\* A validator that also rejects a title of exactly one letter in five.
is_valid_section_title_above_ratio(ttl) ==
    /\ Len(Strip(ttl, Whitespace)) >= 1
    /\ ~MatchesRevisionPattern(ttl)
    /\ 5 * Cardinality({i \in 1..Len(ttl) : ttl[i] \in Letters}) > Len(ttl)

\* alpha_chars < len(title) * 0.2, which is 5 * alpha_chars < len(title) for
\* every length a float holds exactly.
is_valid_section_title(ttl) ==
    LET alpha_chars == Cardinality({i \in 1..Len(ttl) : ttl[i] \in Letters})
    IN  /\ Len(Strip(ttl, Whitespace)) >= 1
        /\ ~MatchesRevisionPattern(ttl)
        /\ ~(5 * alpha_chars < Len(ttl))

\* (?:\s+\d+)?$ at pos: the position after the match, 0 if there is none.  The
\* group is tried first; \s+ and \d+ give nothing back that would help, since
\* a shorter \s+ ends before white space and a shorter \d+ before a digit.
TailEnd(s, pos) ==
    LET w == RunEnd(s, pos, Whitespace)
        d == RunEnd(s, w, Digits)
    IN  IF w > pos /\ d > w /\ AtLineEnd(s, d) THEN d
        ELSE IF AtLineEnd(s, pos) THEN pos
        ELSE 0

\* Where the lazy title, which holds the characters before pos already, ends:
\* the first position from pos on at which the rest of the pattern matches,
\* 0 if a character outside the class comes first.
RECURSIVE TitleEnd(_, _, _)
TitleEnd(s, pos, class) ==
    IF TailEnd(s, pos) # 0 THEN pos
    ELSE IF pos <= Len(s) /\ InClass(s[pos], class) THEN TitleEnd(s, pos + 1, class)
    ELSE 0

\* [a-zA-Z\s\-\(\)\.]
TitleChars == Letters \cup Whitespace \cup {"-", "(", ")", "."}

\* The patterns of find_headings: how many dotted components the id has after
\* its first, and the class of the title's characters after its capital.
chapter_pattern == [dotted |-> {FALSE}, title |-> Class(TitleChars)]

section_pattern == [dotted |-> {TRUE}, title |-> Class(TitleChars)]

flexible_pattern == [dotted |-> BOOLEAN, title |-> Class(TitleChars)]

very_flexible_pattern == [dotted |-> BOOLEAN, title |-> NotClass(Digits \cup {"\n"})]

NoMatch == [found |-> FALSE]

\* pattern.match(s, pos): ^(?P<sid>...)\s+(?P<title>[A-Z]...+?)(?:\s+\d+)?$
HeadingMatch(s, pos, pattern) ==
    LET sid_end == SidEnd(s, pos)
        sid == SubSeq(s, pos, sid_end - 1)
        start == SpaceThenCapital(s, sid_end)
        title_end == TitleEnd(s, start + 2, pattern.title)
    IN  IF /\ AtLineStart(s, pos)
           /\ sid_end # 0
           /\ Contains(sid, ".") \in pattern.dotted
           /\ start # 0
           /\ start < Len(s)
           /\ InClass(s[start + 1], pattern.title)
           /\ title_end # 0
        THEN [found |-> TRUE, sid |-> sid,
              title |-> SubSeq(s, start, title_end - 1),
              end |-> TailEnd(s, title_end)]
        ELSE NoMatch

\* pattern.finditer(s), from pos on: the matches from left to right, each
\* search starting where the last match ended.
RECURSIVE finditer(_, _, _)
finditer(s, pos, pattern) ==
    LET starts == {p \in pos..Len(s) : HeadingMatch(s, p, pattern).found}
    IN  IF starts = {} THEN <<>>
        ELSE LET m == HeadingMatch(s, SetMin(starts), pattern)
             IN  <<m>> \o finditer(s, m.end, pattern)

\* One for-loop of find_headings over the matches of a pattern on the page
\* numbered page; skip_found is whether the loop skips an id already found.
RECURSIVE collect(_, _, _, _)
collect(found, matches, page, skip_found) ==
    IF matches = <<>> THEN found
    ELSE LET sid == Strip(Head(matches).sid, Whitespace)
             ttl == Strip(Head(matches).title, Whitespace)
             skipped == (\E k \in 1..Len(found) : found[k][1] = sid) /\ skip_found
         IN  collect(IF ~skipped /\ is_valid_section_title(ttl)
                     THEN Append(found, <<sid, ttl, page>>)
                     ELSE found,
                     Tail(matches), page, skip_found)

\* The body of the loop over the pages, for the page text at index idx: four
\* loops, one after the other.
scan_page(found, text, idx) ==
    LET chapters == collect(found, finditer(text, 1, chapter_pattern), idx + 1, FALSE)
        dotted == collect(chapters, finditer(text, 1, section_pattern), idx + 1, FALSE)
        flexible == collect(dotted, finditer(text, 1, flexible_pattern), idx + 1, TRUE)
    IN  IF Evaluated(chapters) /\ Evaluated(dotted) /\ Evaluated(flexible)
        THEN collect(flexible, finditer(text, 1, very_flexible_pattern), idx + 1, TRUE)
        ELSE found

\* The loop over pages[start_page:], from index idx on.  The list found is
\* built before the next page is scanned, as the code appends to it page by
\* page.
RECURSIVE scan_pages(_, _, _)
scan_pages(found, pgs, idx) ==
    IF idx >= Len(pgs) \/ ~Evaluated(found) THEN found
    ELSE scan_pages(scan_page(found, pgs[idx + 1], idx), pgs, idx + 1)

\* A deduplication that keeps the last heading of an id and not the first.
RECURSIVE unique_headings_last(_, _)
unique_headings_last(sorted, seen) ==
    IF sorted = <<>> THEN <<>>
    ELSE IF \E k \in 2..Len(sorted) : sorted[k][1] = Head(sorted)[1]
         THEN unique_headings_last(Tail(sorted), seen)
    ELSE <<Head(sorted)>> \o unique_headings_last(Tail(sorted), seen)

\* No deduplication: every sorted finding is kept.
unique_headings_all(sorted, seen) == sorted

\* The loop over the sorted findings, with the set seen.
RECURSIVE unique_headings(_, _)
unique_headings(sorted, seen) ==
    IF sorted = <<>> THEN <<>>
    ELSE IF Head(sorted)[1] \in seen THEN unique_headings(Tail(sorted), seen)
    ELSE <<Head(sorted)>> \o unique_headings(Tail(sorted), seen \cup {Head(sorted)[1]})

\* A sort of the findings by page alone.
sorted_findings_by_page(found) ==
    StableSort(found, [k \in 1..Len(found) |-> <<<<found[k][3]>>>>])

\* sorted(findings, key=lambda t: (list(map(int, t[0].split('.'))), t[2]))
sorted_findings(found) ==
    StableSort(found, [k \in 1..Len(found) |-> <<numeric_key(found[k][1]), <<found[k][3]>>>>])

\* The findings of find_headings before the deduplication.
heading_findings(pgs) == scan_pages(<<>>, pgs, find_actual_document_start(pgs))

find_headings(pgs) == unique_headings(sorted_findings(heading_findings(pgs)), {})

(***************************************************************************)
(* parse_sections.py: build_sections                                       *)
(***************************************************************************)
DocTitle == "USB PD Spec"

\* seq[lo - 1 : hi] of Python for lo >= 1: the elements lo..hi (1-based) that
\* exist.
Slice(seq, lo, hi) == SubSeq(seq, lo, Min(hi, Len(seq)))

\* level and parent_id of a section id (parse_toc.infer_parent_id, and the same
\* expressions in build_sections).
level_of(sid) == Count(sid, ".") + 1

\* A parent that is the first component and not all but the last.
infer_parent_id_first_component(sid) ==
    IF Contains(sid, ".") THEN Split(sid, ".")[1] ELSE None

infer_parent_id(sid) ==
    IF Contains(sid, ".") THEN Join(DropLast(Split(sid, ".")), <<".">>) ELSE None

\* max(1, min(page, num_pages))
clip_page(page, num_pages) == Max(1, Min(page, num_pages))

\* page_end before clipping, for the heading at position idx of headings_sorted.
\* This one ends the section on the page before the next heading, always.
page_end_before_next(headings_sorted, idx, num_pages) ==
    IF idx < Len(headings_sorted)
    THEN headings_sorted[idx + 1][3] - 1
    ELSE num_pages

\* This one ends every section on the page of its heading.
page_end_own_page(headings_sorted, idx, num_pages) == headings_sorted[idx][3]

page_end_of(headings_sorted, idx, num_pages) ==
    IF idx < Len(headings_sorted)
    THEN Max(headings_sorted[idx][3], headings_sorted[idx + 1][3] - 1)
    ELSE num_pages

SectionEntry(doc_title, section_id, ttl, page, level, parent_id, full_path, content, tags) ==
    [doc_title |-> doc_title, section_id |-> section_id, title |-> ttl, page |-> page,
     level |-> level, parent_id |-> parent_id, full_path |-> full_path,
     content |-> content, tags |-> tags]

\* A build that sorts the list of headings it was given in place
\* (headings.sort) where build_sections sorts a copy.
build_sections_frame_sorted_in_place(pgs, hds) ==
    [pages |-> pgs,
     headings |-> StableSort(hds, [i \in 1..Len(hds) |->
                                    <<<<hds[i][3]>>, numeric_key(hds[i][1])>>]),
     returned |-> {"entries"}]

\* The two lists build_sections was given, as the call leaves them, and the
\* list it returns: sorted(headings, ...) and the slice pages[a:b] are new
\* lists, and the records are appended to entries, a list of the call.
build_sections_frame(pgs, hds) ==
    [pages |-> pgs, headings |-> hds, returned |-> {"entries"}]

build_sections(pgs, hds, doc_title) ==
    LET num_pages == Len(pgs)
        headings_sorted ==
            StableSort(hds, [i \in 1..Len(hds) |-> <<<<hds[i][3]>>, numeric_key(hds[i][1])>>])
        entry(idx) ==
            LET sid == headings_sorted[idx][1]
                ttl == headings_sorted[idx][2]
                page_start == clip_page(headings_sorted[idx][3], num_pages)
                page_end == clip_page(page_end_of(headings_sorted, idx, num_pages), num_pages)
                content_pages == Slice(pgs, page_start, page_end)
                content == Strip(Join(content_pages, <<"\n", "\n">>), Whitespace)
            IN  SectionEntry(doc_title, sid, ttl, page_start, level_of(sid),
                             infer_parent_id(sid), sid \o <<" ">> \o ttl, content, <<>>)
    IN  [idx \in 1..Len(hds) |-> entry(idx)]

(***************************************************************************)
(* parse_sections.py: create_page_based_sections                           *)
(***************************************************************************)
FrontMatterPages == 5

MinContentLength == 50

TitleLinesChecked == 5

MinTitleLength == 10

MaxTitleLength == 100

PageContentTitle == <<"P", "a", "g", "e", " ", "C", "o", "n", "t", "e", "n", "t">>

\* re.match(r'^[A-Z][a-zA-Z\s\-\(\)\.]+$', line) for a line without "\n"
LooksLikeTitle(line) ==
    /\ Len(line) >= 2
    /\ line[1] \in UpperLetters
    /\ \A k \in 2..Len(line) : line[k] \in TitleChars

\* re.match(r'^\d+\.\d+\s+[A-Z]', line)
LooksLikeNumberedTitle(line) ==
    LET d == RunEnd(line, 1, Digits)
        e == RunEnd(line, d + 1, Digits)
    IN  /\ d > 1 /\ d <= Len(line) /\ line[d] = "."
        /\ e > d + 1
        /\ SpaceThenCapital(line, e) # 0

\* The loop over lines[:5], from the k-th of them on.
RECURSIVE page_title(_, _)
page_title(lines, k) ==
    IF k > Len(lines) \/ k > TitleLinesChecked THEN PageContentTitle
    ELSE LET line == Strip(lines[k], Whitespace)
         IN  IF /\ Len(line) > MinTitleLength
                /\ Len(line) < MaxTitleLength
                /\ LooksLikeTitle(line) \/ LooksLikeNumberedTitle(line)
             THEN line
             ELSE page_title(lines, k + 1)

\* The loop over range(5, len(pages)), from page_num on.
RECURSIVE page_loop(_, _, _, _)
page_loop(pgs, doc_title, page_num, acc) ==
    IF page_num >= Len(pgs) THEN acc
    ELSE LET content == Strip(pgs[page_num + 1], Whitespace)
             ttl == page_title(Split(content, "\n"), 1)
             section_id == <<"p", "a", "g", "e", "_">> \o RenderInt(page_num + 1)
             entry == SectionEntry(doc_title, section_id, ttl, page_num + 1, 1, None,
                                   section_id \o <<" ">> \o ttl, content,
                                   <<"page_content">>)
         IN  page_loop(pgs, doc_title, page_num + 1,
                       IF Len(content) < MinContentLength THEN acc
                       ELSE Append(acc, entry))

\* A builder that does not skip the front matter.
create_page_based_sections_from_first(pgs, doc_title) ==
    page_loop(pgs, doc_title, 0, <<>>)

create_page_based_sections(pgs, doc_title) ==
    page_loop(pgs, doc_title, FrontMatterPages, <<>>)

(***************************************************************************)
(* parse_toc.py: parse_toc_entries                                         *)
(***************************************************************************)
\* \s+(?P<page>\d{1,4})\s*$ at pos.  \s+ and \d{1,4} are greedy and give
\* nothing back that would help; \s* gives back down to the last position
\* that ends a line.
TocLineRest(s, pos) ==
    LET w == RunEnd(s, pos, Whitespace)
        d == RunEnd(s, w, Digits)
        ends == {e \in d..RunEnd(s, d, Whitespace) : AtLineEnd(s, e)}
    IN  IF w > pos /\ d > w /\ d - w <= 4 /\ ends # {}
        THEN [found |-> TRUE, page |-> SubSeq(s, w, d - 1), end |-> SetMax(ends)]
        ELSE NoMatch

\* pattern.match(s, pos) for the pattern of parse_toc_entries,
\* ^(?P<sid>\d+(?:\.\d+)*)\s+(?P<title>[^\n]+?)\s+(?P<page>\d{1,4})\s*$ : the
\* greedy \s+ before the title gives back as little as a match needs, and the
\* lazy title takes as little as a match needs.
TocLineMatch(s, pos) ==
    LET sid_end == SidEnd(s, pos)
        fits(start, stop) ==
            /\ \A k \in start..(stop - 1) : s[k] # "\n"
            /\ TocLineRest(s, stop).found
        stops(start) == {stop \in (start + 1)..(Len(s) + 1) : fits(start, stop)}
        starts == {start \in (sid_end + 1)..RunEnd(s, sid_end, Whitespace) :
                      stops(start) # {}}
        title_start == SetMax(starts)
        title_end == SetMin(stops(title_start))
        rest == TocLineRest(s, title_end)
    IN  IF AtLineStart(s, pos) /\ sid_end # 0 /\ starts # {}
        THEN [found |-> TRUE, sid |-> SubSeq(s, pos, sid_end - 1),
              title |-> SubSeq(s, title_start, title_end - 1),
              page |-> rest.page, end |-> rest.end]
        ELSE NoMatch

\* pattern.finditer(s) for the pattern of parse_toc_entries, from pos on.
RECURSIVE toc_finditer(_, _)
toc_finditer(s, pos) ==
    LET starts == {p \in pos..Len(s) : TocLineMatch(s, p).found}
    IN  IF starts = {} THEN <<>>
        ELSE LET m == TocLineMatch(s, SetMin(starts))
             IN  <<m>> \o toc_finditer(s, m.end)

TocEntry(doc_title, section_id, ttl, page, level, parent_id, full_path, tags) ==
    [doc_title |-> doc_title, section_id |-> section_id, title |-> ttl,
     page |-> page, level |-> level, parent_id |-> parent_id,
     full_path |-> full_path, tags |-> tags]

\* A loop that takes an id for seen before it checks the page of its line.
RECURSIVE toc_loop_seen_first(_, _, _, _, _)
toc_loop_seen_first(matches, n_pages, doc_title, seen_section_ids, acc) ==
    IF matches = <<>> THEN acc
    ELSE LET sec_id == Head(matches).sid
             page_num == ParseInt(Head(matches).page)
             ttl == normalize_title(Head(matches).title)
             entry == TocEntry(doc_title, sec_id, ttl, page_num, level_of(sec_id),
                               infer_parent_id(sec_id), sec_id \o <<" ">> \o ttl, <<>>)
         IN  toc_loop_seen_first(
                 Tail(matches), n_pages, doc_title, seen_section_ids \cup {sec_id},
                 IF \/ page_num < 1 \/ page_num > n_pages
                    \/ HasYear(ttl)
                    \/ sec_id \in seen_section_ids
                 THEN acc ELSE Append(acc, entry))

\* The loop of parse_toc_entries over the matches, with seen_section_ids and
\* the entries appended so far.
RECURSIVE toc_loop(_, _, _, _, _)
toc_loop(matches, n_pages, doc_title, seen_section_ids, acc) ==
    IF matches = <<>> THEN acc
    ELSE LET sec_id == Strip(Head(matches).sid, Whitespace)
             page_num == ParseInt(Head(matches).page)
             ttl == normalize_title(Head(matches).title)
             skipped ==
                 \/ page_num < 1 \/ page_num > n_pages
                 \/ HasYear(ttl)
                 \/ sec_id \in seen_section_ids
             entry == TocEntry(doc_title, sec_id, ttl, page_num, level_of(sec_id),
                               infer_parent_id(sec_id),
                               sec_id \o <<" ">> \o ttl, <<>>)
         IN  IF skipped
             THEN toc_loop(Tail(matches), n_pages, doc_title, seen_section_ids, acc)
             ELSE toc_loop(Tail(matches), n_pages, doc_title,
                           seen_section_ids \cup {sec_id}, Append(acc, entry))

parse_toc_entries(text, n_pages, doc_title) ==
    toc_loop(toc_finditer(text, 1), n_pages, doc_title, {}, <<>>)

(***************************************************************************)
(* validate_and_report.py: reading, validating and reporting               *)
(***************************************************************************)
\* A file of the working directory: missing; one that is there and cannot be
\* read (open() raises PermissionError or IsADirectoryError, or the bytes are
\* not UTF-8 and the decoding raises UnicodeDecodeError); or one with a
\* content.
MissingFile == [state |-> "missing"]

UnreadableFile(error) == [state |-> "unreadable", error |-> error]

FileOf(content) == [state |-> "content", content |-> content]

\* A line of a records file: white space only, a JSON object, or no JSON.  A
\* JSON document: an object, or no JSON.
BlankLine == [kind |-> "blank"]

Junk == [kind |-> "junk"]

Json(value) == [kind |-> "json", value |-> value]

\* open(path) followed by the reading of the file: FileNotFoundError for a
\* missing file, the error of an unreadable one.
open_and_read(file) ==
    IF file.state = "missing" THEN Raises("FileNotFoundError")
    ELSE IF file.state = "unreadable" THEN Raises(file.error)
    ELSE Returns(file.content)

\* The exceptions read_jsonl and load_schema catch.
CaughtOnRead == {"FileNotFoundError", "JSONDecodeError"}

\* The loop of read_jsonl over the lines: json.loads raises JSONDecodeError on
\* the first line that is no JSON.
RECURSIVE read_lines(_, _)
read_lines(lines, rows) ==
    IF lines = <<>> THEN Returns(rows)
    ELSE IF Head(lines).kind = "blank" THEN read_lines(Tail(lines), rows)
    ELSE IF Head(lines).kind = "junk" THEN Raises("JSONDecodeError")
    ELSE read_lines(Tail(lines), Append(rows, Head(lines).value))

read_jsonl(file) ==
    LET opened == open_and_read(file)
        read == IF opened.raises THEN opened ELSE read_lines(opened.value, <<>>)
    IN  IF read.raises /\ read.exception \in CaughtOnRead THEN Returns(<<>>) ELSE read

\* Optional[dict]: None, or the schema.
NoSchema == [none |-> TRUE]

SomeSchema(schema) == [none |-> FALSE, schema |-> schema]

load_schema(file) ==
    LET opened == open_and_read(file)
        loaded == IF opened.raises THEN opened
                  ELSE IF opened.value.kind = "junk" THEN Raises("JSONDecodeError")
                  ELSE Returns(SomeSchema(opened.value.value))
    IN  IF loaded.raises /\ loaded.exception \in CaughtOnRead THEN Returns(NoSchema)
        ELSE loaded

\* A schema is the list of the keys it requires; the schema {} has no keyword
\* at all and is falsy.
Schema(required) == [empty |-> FALSE, required |-> required]

EmptySchema == [empty |-> TRUE, required |-> <<>>]

\* validator.iter_errors(row): one error for each required key the row lacks,
\* named by the key.
iter_errors(row, schema) ==
    LET lacks(key) == key \notin DOMAIN row
    IN  SelectSeq(schema.required, lacks)

\* The loop of validate_rows over enumerate(rows), from the row at position k
\* on; idx is 0-based.
RECURSIVE validate_loop(_, _, _, _)
validate_loop(rows, k, schema, errors) ==
    IF k > Len(rows) THEN errors
    ELSE LET found == iter_errors(rows[k], schema)
         IN  validate_loop(rows, k + 1, schema,
                           errors \o [e \in 1..Len(found) |-> <<k - 1, found[e]>>])

validate_rows(rows, file) ==
    LET loaded == load_schema(file)
    IN  IF loaded.raises THEN loaded
        ELSE IF loaded.value.none THEN Returns(<<>>)
        ELSE IF loaded.value.schema.empty THEN Returns(<<>>)
        ELSE Returns(validate_loop(rows, 1, loaded.value.schema, <<>>))

\* [row["section_id"] for row in rows]
get_section_ids(rows) ==
    IF \E i \in 1..Len(rows) : "section_id" \notin DOMAIN rows[i] THEN Raises("KeyError")
    ELSE Returns([i \in 1..Len(rows) |-> rows[i].section_id])

\* compare_toc_vs_spec on the rows.
compare_rows(t_rows, s_rows) ==
    LET t_ids == get_section_ids(t_rows)
        s_ids == get_section_ids(s_rows)
        me == find_missing_and_extra_sections(t_ids.value, s_ids.value)
        om == find_order_mismatches(t_ids.value, s_ids.value)
    IN  IF t_ids.raises THEN t_ids
        ELSE IF s_ids.raises THEN s_ids
        ELSE Returns([counts |-> Counts(t_ids.value, s_ids.value, me[1], me[2], om),
                      missing |-> me[1], extra |-> me[2], order_mismatches |-> om])

\* PdfReader("usb_pd_spec.pdf") and the table ids read from it: those of the
\* list of tables and those of the captions in the document.
analyze_tables(file) ==
    LET opened == open_and_read(file)
    IN  IF opened.raises THEN opened
        ELSE Returns([toc_table_ids |-> opened.value.toc_table_ids,
                      doc_table_ids |-> opened.value.doc_table_ids])

PrimaryPath == "validation_report.xlsx"

AltPath == "validation_report_<timestamp>.xlsx"

\* workbook.save(path) on a path that is writable, that refuses the writing
\* (PermissionError) or that fails otherwise (another OSError).
save(path_state) ==
    IF path_state = "writable" THEN Returns(TRUE)
    ELSE IF path_state = "denied" THEN Raises("PermissionError")
    ELSE Raises("OSError")

save_workbook_with_fallback(primary, alt) ==
    LET first == save(primary)
        second == save(alt)
    IN  IF ~first.raises THEN Returns(PrimaryPath)
        ELSE IF first.exception # "PermissionError" THEN first
        ELSE IF ~second.raises THEN Returns(AltPath)
        ELSE second

\* A worksheet: its title and its rows.  Workbook() holds one worksheet, the
\* active one, titled "Sheet"; wb.create_sheet(title) adds one at the end.
Worksheet(name, rows) == [title |-> name, rows |-> rows]

Workbook == <<Worksheet("Sheet", <<>>)>>

create_sheet(wb, name, rows) == Append(wb, Worksheet(name, rows))

\* One row of one cell for each id, under the header.
IdRows(header, ids) == <<header>> \o [k \in 1..Len(ids) |-> <<ids[k]>>]

\* wb.active is the first worksheet: it gets the title "overview", the
\* headers and the values.
create_overview_sheet(wb, cnts, errs_toc, errs_spec) ==
    LET headers == <<"toc_total", "spec_total", "missing_in_spec", "extra_in_spec",
                     "order_errors", "toc_schema_errors", "spec_schema_errors">>
        values == <<cnts.toc_total, cnts.spec_total, cnts.missing_in_spec,
                    cnts.extra_in_spec, cnts.order_errors,
                    Len(errs_toc), Len(errs_spec)>>
    IN  <<Worksheet("overview", wb[1].rows \o <<headers, values>>)>> \o Tail(wb)

create_analysis_sheets(wb, mis, ext, ord, toc_gaps, spec_gaps) ==
    LET with_missing == create_sheet(wb, "missing_in_spec",
                                     IdRows(<<"missing_in_spec">>, mis))
        with_extra == create_sheet(with_missing, "extra_in_spec",
                                   IdRows(<<"extra_in_spec">>, ext))
        with_order == create_sheet(with_extra, "order_mismatches",
                                   IdRows(<<"order_mismatches">>, ord))
        with_gaps_toc == create_sheet(with_order, "gaps_toc",
                                      <<<<"parent_id", "missing_children">>>> \o toc_gaps)
    IN  create_sheet(with_gaps_toc, "gaps_spec",
                     <<<<"parent_id", "missing_children">>>> \o spec_gaps)

\* The mutant of create_error_sheets that creates both sheets whatever the
\* lists hold.
create_error_sheets_always(wb, errs_toc, errs_spec) ==
    create_sheet(create_sheet(wb, "toc_schema_errors", <<<<"row_index", "error">>>> \o errs_toc),
                 "spec_schema_errors", <<<<"row_index", "error">>>> \o errs_spec)

\* A list is true when it is not empty.
create_error_sheets(wb, errs_toc, errs_spec) ==
    LET with_toc == IF errs_toc # <<>>
                    THEN create_sheet(wb, "toc_schema_errors",
                                      <<<<"row_index", "error">>>> \o errs_toc)
                    ELSE wb
    IN  IF errs_spec # <<>>
        THEN create_sheet(with_toc, "spec_schema_errors",
                          <<<<"row_index", "error">>>> \o errs_spec)
        ELSE with_toc

create_table_analysis_sheet(wb, toc_table_ids, doc_table_ids) ==
    LET in_doc(t) == \E k \in 1..Len(doc_table_ids) : doc_table_ids[k] = t
        in_toc(t) == \E k \in 1..Len(toc_table_ids) : toc_table_ids[k] = t
        not_in_doc(t) == ~in_doc(t)
        not_in_toc(t) == ~in_toc(t)
        missing_tables == SelectSeq(toc_table_ids, not_in_doc)
        extra_tables == SelectSeq(doc_table_ids, not_in_toc)
    IN  create_sheet(wb, "tables",
                     <<<<"metric", "value">>,
                       <<"toc_tables_count", Len(toc_table_ids)>>,
                       <<"parsed_tables_count", Len(doc_table_ids)>>,
                       <<"missing_tables", Join(missing_tables, <<",", " ">>)>>,
                       <<"extra_tables", Join(extra_tables, <<",", " ">>)>>>>)

\* The workbook create_excel_report builds from the result before it saves it.
create_excel_report(res) ==
    LET overview == create_overview_sheet(Workbook, res.counts, res.errors_toc,
                                          res.errors_spec)
        analysis == create_analysis_sheets(overview, res.missing, res.extra,
                                           res.order_mismatches, res.toc_gaps,
                                           res.spec_gaps)
        errors == create_error_sheets(analysis, res.errors_toc, res.errors_spec)
    IN  create_table_analysis_sheet(errors, res.toc_table_ids, res.doc_table_ids)

(***************************************************************************)
(* Inputs                                                                  *)
(***************************************************************************)
MaxIds == 3

MaxGapIds == 3

MaxRawLen == 5

MaxStructured == 101

MaxPageBased == 201

S1 == <<"1">>
S2 == <<"2">>
S3 == <<"3">>
S10 == <<"1", "0">>
S2_9 == <<"2", ".", "9">>
S2_10 == <<"2", ".", "1", "0">>
S2_1 == <<"2", ".", "1">>
S2_2 == <<"2", ".", "2">>
S2_4 == <<"2", ".", "4">>
S2_1_7 == <<"2", ".", "1", ".", "7">>
S2_1_9 == <<"2", ".", "1", ".", "9">>

\* Ids of the page fallback, and an id whose last component is a letter.
Page7 == <<"p", "a", "g", "e", "_", "7">>

Page9 == <<"p", "a", "g", "e", "_", "9">>

S2_x == <<"2", ".", "x">>

\* Outlines of the page fallback, of headings, and of both.
MixedIds == {Page7, Page9, S1, S3, S2_1, S2_x, S2_4}

\* Outlines with a gap at the top level and one under 2, in every order, after
\* an id that is not numeric.
TwoGapOutlines ==
    {<<first>> \o rest : first \in {S2_x, Page7},
                         rest \in {r \in [1..4 -> {S1, S3, S2_1, S2_4}] :
                                     \A i, j \in 1..4 : r[i] = r[j] => i = j}}

ReconcileIds == {S2, S10, S2_9, S2_10}

GapIds == {S1, S2, S3, S10, S2_1, S2_2, S2_4, S2_10, S2_1_7, S2_1_9}

SeqsUpTo(S, n) == UNION {[1..k -> S] : k \in 0..n}

\* "Title .......... " and "Title . . . . ."
TitleWithLeaders ==
    <<"T", "i", "t", "l", "e", " ", ".", ".", ".", ".", ".", ".", ".", ".", ".", ".", " ">>

TitleWithSpacedDots ==
    <<"T", "i", "t", "l", "e", " ", ".", " ", ".", " ", ".", " ", ".", " ", ".">>

RawTitleChars == {"T", ".", " ", "\t"}

RawTitles ==
    SeqsUpTo(RawTitleChars, MaxRawLen) \cup {TitleWithLeaders, TitleWithSpacedDots}

MaxPages == 3

MaxHeadings == 2

\* The text of the k-th page of a drawn document: distinct texts, with white
\* space at either end of some.
BuildTexts == <<<<" ", "a">>, <<"b", "\n">>, <<"c">>, <<" ", "d", " ">>, <<"e">>, <<"f">>>>

BuildPages == {SubSeq(BuildTexts, 1, n) : n \in 0..Min(MaxPages, Len(BuildTexts))}

BuildIds == {S2_9, S2_10}

BuildPageNumbers == 0..4

BuildTitle == <<"T">>

BuildHeadings == {<<sid, BuildTitle, p>> : sid \in BuildIds, p \in BuildPageNumbers}

\* The documents of test_build_sections and of the end-to-end scenario.
TestPages ==
    <<<<"P", "a", "g", "e", " ", "1", " ", "c", "o", "n", "t", "e", "n", "t">>,
      <<"P", "a", "g", "e", " ", "2", " ", "c", "o", "n", "t", "e", "n", "t">>,
      <<"P", "a", "g", "e", " ", "3", " ", "c", "o", "n", "t", "e", "n", "t">>,
      <<"P", "a", "g", "e", " ", "4", " ", "c", "o", "n", "t", "e", "n", "t">>>>

TestHeadings ==
    <<<<S1, <<"O", "v", "e", "r", "v", "i", "e", "w">>, 1>>,
      <<<<"1", ".", "1">>, <<"I", "n", "t", "r", "o", "d", "u", "c", "t", "i", "o", "n">>, 2>>,
      <<S2, <<"P", "o", "w", "e", "r", " ", "D", "e", "l", "i", "v", "e", "r", "y">>, 3>>>>

ScenarioPages ==
    <<<<"1", " ", "O", "v", "e", "r", "v", "i", "e", "w">>,
      <<"b", "o", "d", "y", "1">>,
      <<"1", ".", "1", " ", "I", "n", "t", "r", "o">>,
      <<"b", "o", "d", "y", "2">>,
      <<"2", " ", "P", "o", "w", "e", "r", " ", "D", "e", "l", "i", "v", "e", "r", "y">>,
      <<"b", "o", "d", "y", "3">>>>

ScenarioHeadings ==
    <<<<S1, <<"O", "v", "e", "r", "v", "i", "e", "w">>, 1>>,
      <<<<"1", ".", "1">>, <<"I", "n", "t", "r", "o">>, 3>>,
      <<S2, <<"P", "o", "w", "e", "r", " ", "D", "e", "l", "i", "v", "e", "r", "y">>, 5>>>>

\* A build of n sections, for the counts no bounded document reaches.
StructuredBuild(n) == [i \in 1..n |-> [tags |-> <<>>]]

PageBasedBuild(n) == [i \in 1..n |-> [tags |-> <<"page_content">>]]

MaxDocPages == 3

\* Page texts: a chapter heading; the same id lower on a page, with another
\* title and a trailing page number; a subsection and a chapter; no heading;
\* a title only the last pattern admits; a revision row and a heading of one
\* id; a heading find_actual_document_start does not look for.
HeadingTexts ==
    {<<"1", " ", "A", "b">>,
     <<"x", "\n", "1", " ", "C", "d", " ", "1", "2">>,
     <<"1", ".", "1", " ", "A", "b", "\n", "1", " ", "E", "f">>,
     <<"N", "o", "t", "e">>,
     <<"1", " ", "A", ",", "b">>,
     <<"2", " ", "H", "e", "x", " ", "d", "a", "t", "a", "\n", "2", " ", "O", "k">>}

DeepHeading == <<"1", ".", "1", ".", "1", " ", "A", "b">>

\* A document whose scan starts at the default page.
LateDocument ==
    <<<<"N", "o", "t", "e">>, <<"N", "o", "t", "e">>, <<"N", "o", "t", "e">>, <<"N", "o", "t", "e">>, <<"N", "o", "t", "e">>,
      DeepHeading, <<"1", ".", "1", ".", "1", " ", "C", "d", "\n", "2", ".", "1", ".", "1", " ", "A", "b">>, DeepHeading>>

\* A document whose scan starts at the default page and that has a heading
\* before it.
SkippedHeadingDocument ==
    <<DeepHeading, <<"N", "o", "t", "e">>, <<"N", "o", "t", "e">>, <<"N", "o", "t", "e">>,
      <<"N", "o", "t", "e">>,
      <<"2", ".", "1", ".", "1", " ", "A", "b">>,
      <<"1", ".", "1", ".", "1", " ", "C", "d">>>>

MaxTocLines == 3

DOC_TITLE_DEFAULT == "USB Power Delivery Specification"

\* ToC lines: one id with two pages; dot leaders; a dated revision row; a
\* page beyond a short document; a line without a page; an id with a zero;
\* a page 0; a title of dot leaders only.
TocLines ==
    {<<"1", " ", "I", "n", "t", "r", "o", " ", "7">>,
     <<"1", " ", "I", "n", "t", "r", "o", " ", "3">>,
     <<"1", ".", "1", " ", "S", "c", "o", "p", "e", " ", ".", ".", ".", ".", " ", "4">>,
     <<"2", " ", "F", "o", "o", " ", "2", "0", "2", "4", " ", "4">>,
     <<"2", ".", "1", ".", "2", " ", "B", "a", "r", " ", "1", "2">>,
     <<"3", " ", "B", "a", "r">>,
     <<"1", ".", "0", " ", "D", "r", "a", "f", "t", " ", "3">>,
     <<"1", " ", "I", "n", "t", "r", "o", " ", "0">>,
     <<"4", " ", ".", ".", ".", " ", "5">>}

TocTexts == {Join(lines, <<"\n">>) : lines \in SeqsUpTo(TocLines, MaxTocLines)}

TocPageCounts == {5, 20}

MaxBodyPages == 3

\* Page texts of a document body: a page that opens with a title line; a page
\* without one, of exactly 50 characters; a page too short to keep; a page
\* that opens with a numbered line.
TitledPage ==
    <<"P", "o", "w", "e", "r", " ", "D", "e", "l", "i", "v", "e", "r", "y",
        " ", "O", "v", "e", "r", "v", "i", "e", "w", "\n", "t", "h", "e",
        " ", "s", "o", "u", "r", "c", "e", " ", "s", "e", "n", "d", "s",
        " ", "i", "t", "s", " ", "c", "a", "p", "a", "b", "i", "l", "i",
        "t", "i", "e", "s", " ", "t", "o", " ", "t", "h", "e", " ", "s",
        "i", "n", "k", " ", "a", "t", " ", "o", "n", "c", "e">>

UntitledPage ==
    <<"t", "h", "e", " ", "s", "o", "u", "r", "c", "e", " ", "s", "e", "n",
        "d", "s", " ", "i", "t", "s", " ", "c", "a", "p", "a", "b", "i",
        "l", "i", "t", "i", "e", "s", " ", "t", "o", " ", "t", "h", "e",
        " ", "s", "i", "n", "k", " ", "a", "t", " ", "o">>

\* A page of 50 characters, the last of them white space.
EdgePage ==
    <<"t", "h", "e", " ", "s", "o", "u", "r", "c", "e", " ", "s", "e", "n",
        "d", "s", " ", "i", "t", "s", " ", "c", "a", "p", "a", "b", "i",
        "l", "i", "t", "i", "e", "s", " ", "t", "o", " ", "t", "h", "e",
        " ", "s", "i", "n", "k", " ", "a", "t", "o", " ">>

ShortPage == <<"s", "h", "o", "r", "t", " ", "p", "a", "g", "e">>

NumberedPage ==
    <<" ", "\n", "2", ".", "1", " ", "O", "v", "e", "r", "v", "i", "e",
        "w", " ", "o", "f", " ", "i", "t", "\n", "t", "h", "e", " ", "s",
        "o", "u", "r", "c", "e", " ", "s", "e", "n", "d", "s", " ", "i",
        "t", "s", " ", "c", "a", "p", "a", "b", "i", "l", "i", "t", "i",
        "e", "s", " ", "t", "o", " ", "t", "h", "e", " ", "s", "i", "n",
        "k", " ", "a", "t", " ", "o", "n", "c", "e">>

BodyTexts == {TitledPage, UntitledPage, ShortPage, NumberedPage, EdgePage}

\* The first pages of a document: short ones, and a long one among them.
FrontMatter == [k \in 1..FrontMatterPages |-> IF k = 2 THEN UntitledPage ELSE ShortPage]

\* Documents: the front matter, whole and followed by a body, or a part of it.
FallbackDocuments ==
    {FrontMatter \o body : body \in SeqsUpTo(BodyTexts, MaxBodyPages)}
        \cup {SubSeq(FrontMatter, 1, n) : n \in 0..FrontMatterPages}

\* A document whose ids are in another order as strings than as numbers, the
\* larger one on the earlier page.
NumberedDocument ==
    <<<<"2", ".", "1", "0", " ", "A", "b">>,
      <<"2", ".", "9", " ", "C", "d", "\n", "1", " ", "E", "f">>>>

\* A document with headings in its first pages and a long page after them.
MixedDocument ==
    <<<<"1", " ", "A", "b">>, <<"1", ".", "1", " ", "C", "d", "\n", "1", ".", "2", " ", "E", "f">>, <<"2", " ", "G", "h">>, ShortPage, ShortPage,
      TitledPage, UntitledPage>>

\* The documents of the section pipeline.
PipelineDocuments ==
    SeqsUpTo(HeadingTexts \cup {DeepHeading}, MaxDocPages)
        \cup FallbackDocuments
        \cup {LateDocument, NumberedDocument, MixedDocument}

MaxTitleChars == 5

\* Candidate titles: every string of up to MaxTitleChars characters out of a
\* letter, two digits a year is made of and a blank; the titles of
\* test_is_valid_section_title; boilerplate and near misses of it.
CandidateChars == {"A", "2", "0", " "}

TestTitles ==
    {<<"O", "v", "e", "r", "v", "i", "e", "w">>,
     <<"P", "o", "w", "e", "r", " ", "D", "e", "l", "i", "v", "e", "r", "y", " ", "C", "o", "n", "t", "r", "a", "c", "t">>,
     <<"I", "n", "t", "r", "o", "d", "u", "c", "t", "i", "o", "n", " ", "t", "o", " ", "U", "S", "B", " ", "P", "D">>,
     <<"1", ".", "0", " ", "I", "n", "i", "t", "i", "a", "l", " ", "r", "e", "l", "e", "a", "s", "e">>,
     <<"E", "d", "i", "t", "o", "r", "i", "a", "l", " ", "c", "h", "a", "n", "g", "e", "s">>,
     <<"T", "a", "b", "l", "e", " ", "o", "f", " ", "C", "o", "n", "t", "e", "n", "t", "s">>,
     <<"2", "0", "2", "4", "-", "1", "0">>,
     <<"A">>,
     <<"1", "2", "3", "4", "5", "6", "7", "8", "9">>,
     <<"R", "e", "v", "i", "s", "i", "o", "n", " ", "H", "i", "s", "t", "o", "r", "y">>,
     <<"P", "a", "g", "e", " ", "1", "2">>,
     <<"p", "a", "g", "e", " ", " ", "3">>,
     <<"T", "A", "B", "L", "E", " ", "O", "F", " ", "C", "O", "N", "T", "E", "N", "T", "S">>,
     <<"E", "C", "N", "s", ":", " ", "n", "o", "n", "e">>,
     <<"U", "n", "i", "v", "e", "r", "s", "a", "l", " ", "S", "e", "r", "i", "a", "l", " ", "B", "u", "s", " ", "P", "D", " ", "S", "p", "e", "c", "i", "f", "i", "c", "a", "t", "i", "o", "n">>,
     <<"A", "1", "2", "3", "4">>,
     <<"A", "1", "2", "3", "4", "5">>,
     <<"a", "b", " ", "x", "2", "0", "2", "4">>}

CandidateTitles == SeqsUpTo(CandidateChars, MaxTitleChars) \cup TestTitles

(***************************************************************************)
(* The variables of a program that does not run hold their defaults.       *)
(***************************************************************************)
ReconcileIdle ==
    /\ toc_ids = <<>>
    /\ spec_ids = <<>>
    /\ missing = <<>>
    /\ extra = <<>>
    /\ order_mismatches = <<>>
    /\ counts = NoCounts

GapIdle ==
    /\ section_ids = <<>>
    /\ gaps = <<>>

TitleIdle ==
    /\ raw_title = <<>>
    /\ title = <<>>
    /\ title_again = <<>>

MainIdle ==
    /\ structured_sections = <<>>
    /\ page_based_sections = Unbound
    /\ sections = Unbound
    /\ approach = ""

BuildIdle ==
    /\ pages = <<>>
    /\ headings = <<>>
    /\ entries = <<>>

ValidIdle ==
    /\ candidate_title = <<>>
    /\ title_valid = Unbound

ReportIdle ==
    /\ disk = <<>>
    /\ toc_rows = Unbound
    /\ spec_rows = Unbound
    /\ errors_toc = Unbound
    /\ errors_spec = Unbound
    /\ compared = Unbound
    /\ result = Unbound
    /\ exception = Unbound
    /\ report = Unbound

\* No call has returned a list yet.
FrameIdle == returned = {}

ScanIdle ==
    /\ findings = <<>>
    /\ toc_text = <<>>
    /\ page_count = 0

(***************************************************************************)
(* The reconciler run: compare_toc_vs_spec on two id sequences             *)
(***************************************************************************)
InitReconcile ==
    /\ prog = "reconcile"
    /\ pc = "rows"
    /\ toc_ids \in SeqsUpTo(ReconcileIds, MaxIds)
    /\ spec_ids \in SeqsUpTo(ReconcileIds, MaxIds)
    /\ missing = <<>>
    /\ extra = <<>>
    /\ order_mismatches = <<>>
    /\ counts = NoCounts
    /\ GapIdle /\ TitleIdle /\ MainIdle /\ BuildIdle /\ ScanIdle /\ ValidIdle /\ ReportIdle /\ FrameIdle

compare_toc_vs_spec ==
    /\ prog = "reconcile"
    /\ pc = "rows"
    /\ LET me == find_missing_and_extra_sections(toc_ids, spec_ids)
           om == find_order_mismatches(toc_ids, spec_ids)
       IN  /\ missing' = me[1]
           /\ extra' = me[2]
           /\ order_mismatches' = om
           /\ counts' = Counts(toc_ids, spec_ids, me[1], me[2], om)
    /\ LET first == find_missing_and_extra_sections_frame(toc_ids, spec_ids)
           second == find_order_mismatches_frame(first.toc_ids, first.spec_ids)
       IN  /\ toc_ids' = second.toc_ids
           /\ spec_ids' = second.spec_ids
           /\ returned' = first.returned \cup second.returned
    /\ pc' = "compared"
    /\ UNCHANGED <<prog, GapVars, TitleVars, MainVars, BuildVars, ScanVars, ValidVars, ReportVars>>

NextReconcile == compare_toc_vs_spec

SpecReconcile == InitReconcile /\ [][NextReconcile]_vars

(***************************************************************************)
(* The gap detector run: detect_gaps on the ids of one outline             *)
(***************************************************************************)
InitGaps ==
    /\ prog = "gaps"
    /\ pc = "ids"
    /\ section_ids \in SeqsUpTo(GapIds, MaxGapIds)
    /\ gaps = <<>>
    /\ ReconcileIdle /\ TitleIdle /\ MainIdle /\ BuildIdle /\ ScanIdle /\ ValidIdle /\ ReportIdle /\ FrameIdle

DetectGaps ==
    /\ prog = "gaps"
    /\ pc = "ids"
    /\ gaps' = detect_gaps(section_ids)
    /\ section_ids' = detect_gaps_frame(section_ids).section_ids
    /\ returned' = detect_gaps_frame(section_ids).returned
    /\ pc' = "detected"
    /\ UNCHANGED <<prog, ReconcileVars, TitleVars, MainVars, BuildVars, ScanVars, ValidVars, ReportVars>>

NextGaps == DetectGaps

SpecGaps == InitGaps /\ [][NextGaps]_vars

(***************************************************************************)
(* detect_gaps on the ids of an outline that holds page-fallback ids       *)
(***************************************************************************)
InitMixedGaps ==
    /\ prog = "gaps"
    /\ pc = "ids"
    /\ section_ids \in SeqsUpTo(MixedIds, MaxGapIds) \cup TwoGapOutlines
    /\ gaps = <<>>
    /\ ReconcileIdle /\ TitleIdle /\ MainIdle /\ BuildIdle /\ ScanIdle /\ ValidIdle /\ ReportIdle /\ FrameIdle

SpecMixedGaps == InitMixedGaps /\ [][NextGaps]_vars

(***************************************************************************)
(* Title normalization: normalize_title, and again on its own result       *)
(***************************************************************************)
InitTitle ==
    /\ prog = "title"
    /\ pc = "raw"
    /\ raw_title \in RawTitles
    /\ title = <<>>
    /\ title_again = <<>>
    /\ ReconcileIdle /\ GapIdle /\ MainIdle /\ BuildIdle /\ ScanIdle /\ ValidIdle /\ ReportIdle /\ FrameIdle

NormalizeTitle ==
    /\ prog = "title"
    /\ pc = "raw"
    /\ title' = normalize_title(raw_title)
    /\ pc' = "normalized"
    /\ UNCHANGED <<prog, raw_title, title_again, ReconcileVars, GapVars, MainVars, BuildVars, ScanVars, ValidVars, ReportVars, FrameVars>>

NormalizeAgain ==
    /\ prog = "title"
    /\ pc = "normalized"
    /\ title_again' = normalize_title(title)
    /\ pc' = "renormalized"
    /\ UNCHANGED <<prog, raw_title, title, ReconcileVars, GapVars, MainVars, BuildVars, ScanVars, ValidVars, ReportVars, FrameVars>>

NextTitle == NormalizeTitle \/ NormalizeAgain

SpecTitle == InitTitle /\ [][NextTitle]_vars

(***************************************************************************)
(* parse_sections.main from the structured build on: the choice of the     *)
(* sections to write.  The two builds are drawn by their size.             *)
(***************************************************************************)
InitSelect ==
    /\ prog = "select"
    /\ pc = "built"
    /\ structured_sections \in {StructuredBuild(n) : n \in 0..MaxStructured}
    /\ page_based_sections = Unbound
    /\ sections = Unbound
    /\ approach = ""
    /\ ReconcileIdle /\ GapIdle /\ TitleIdle /\ BuildIdle /\ ScanIdle /\ ValidIdle /\ ReportIdle /\ FrameIdle

\* The structured build is below the threshold: the page-based build is made
\* and the larger yield is taken, with the bias to the structured one.
SelectWithFallback ==
    /\ prog = "select"
    /\ pc = "built"
    /\ needs_page_based(structured_sections)
    /\ \E n \in 0..MaxPageBased :
        LET page_based == PageBasedBuild(n)
        IN  /\ page_based_sections' = Bound(page_based)
            /\ IF prefers_page_based(structured_sections, page_based)
               THEN sections' = Bound(page_based) /\ approach' = "page-based"
               ELSE sections' = Bound(structured_sections) /\ approach' = "structured"
    /\ pc' = "written"
    /\ UNCHANGED <<prog, structured_sections, ReconcileVars, GapVars, TitleVars, BuildVars, ScanVars, ValidVars, ReportVars, FrameVars>>

\* The structured build reaches the threshold: it is taken as it is.
SelectStructured ==
    /\ prog = "select"
    /\ pc = "built"
    /\ ~needs_page_based(structured_sections)
    /\ sections' = Bound(structured_sections)
    /\ approach' = "structured"
    /\ pc' = "written"
    /\ UNCHANGED <<prog, structured_sections, page_based_sections,
                   ReconcileVars, GapVars, TitleVars, BuildVars, ScanVars, ValidVars, ReportVars, FrameVars>>

NextSelect == SelectWithFallback \/ SelectStructured

SpecSelect == InitSelect /\ [][NextSelect]_vars

(***************************************************************************)
(* build_sections on a document and a heading list                         *)
(***************************************************************************)
InitBuild ==
    /\ prog = "build"
    /\ pc = "headings"
    /\ \/ /\ pages \in BuildPages
          /\ headings \in SeqsUpTo(BuildHeadings, MaxHeadings)
       \/ pages = TestPages /\ headings = TestHeadings
       \/ pages = ScenarioPages /\ headings = ScenarioHeadings
    /\ entries = <<>>
    /\ ReconcileIdle /\ GapIdle /\ TitleIdle /\ MainIdle /\ ScanIdle /\ ValidIdle /\ ReportIdle /\ FrameIdle

BuildSections ==
    /\ prog = "build"
    /\ pc = "headings"
    /\ entries' = build_sections(pages, headings, DocTitle)
    /\ pages' = build_sections_frame(pages, headings).pages
    /\ headings' = build_sections_frame(pages, headings).headings
    /\ returned' = build_sections_frame(pages, headings).returned
    /\ pc' = "built"
    /\ UNCHANGED <<prog, ReconcileVars, GapVars, TitleVars, MainVars, ScanVars, ValidVars, ReportVars>>

NextBuild == BuildSections

SpecBuild == InitBuild /\ [][NextBuild]_vars

(***************************************************************************)
(* find_headings on a document                                             *)
(***************************************************************************)
InitHeadings ==
    /\ prog = "headings"
    /\ pc = "pages"
    /\ \/ pages \in SeqsUpTo(HeadingTexts \cup {DeepHeading}, MaxDocPages)
       \/ pages = LateDocument
       \/ pages = SkippedHeadingDocument
       \/ pages = NumberedDocument
    /\ headings = <<>>
    /\ entries = <<>>
    /\ ReconcileIdle /\ GapIdle /\ TitleIdle /\ MainIdle /\ ScanIdle /\ ValidIdle /\ ReportIdle /\ FrameIdle

FindHeadings ==
    /\ prog = "headings"
    /\ pc = "pages"
    /\ findings' = heading_findings(pages)
    /\ headings' = find_headings(pages)
    /\ pc' = "found"
    /\ UNCHANGED <<prog, pages, entries, toc_text, page_count,
                   ReconcileVars, GapVars, TitleVars, MainVars, ValidVars, ReportVars, FrameVars>>

NextHeadings == FindHeadings

SpecHeadings == InitHeadings /\ [][NextHeadings]_vars

(***************************************************************************)
(* parse_toc_entries on the text of a ToC region                           *)
(***************************************************************************)
InitToc ==
    /\ prog = "toc"
    /\ pc = "text"
    /\ toc_text \in TocTexts
    /\ page_count \in TocPageCounts
    /\ findings = <<>>
    /\ ReconcileIdle /\ GapIdle /\ TitleIdle /\ MainIdle /\ BuildIdle /\ ValidIdle /\ ReportIdle /\ FrameIdle

ParseTocEntries ==
    /\ prog = "toc"
    /\ pc = "text"
    /\ entries' = parse_toc_entries(toc_text, page_count, DOC_TITLE_DEFAULT)
    /\ pc' = "parsed"
    /\ UNCHANGED <<prog, pages, headings, ScanVars,
                   ReconcileVars, GapVars, TitleVars, MainVars, ValidVars, ReportVars, FrameVars>>

NextToc == ParseTocEntries

SpecToc == InitToc /\ [][NextToc]_vars

(***************************************************************************)
(* create_page_based_sections on a document                                *)
(***************************************************************************)
InitPageBased ==
    /\ prog = "page_based"
    /\ pc = "pages"
    /\ pages \in FallbackDocuments
    /\ headings = <<>>
    /\ entries = <<>>
    /\ ReconcileIdle /\ GapIdle /\ TitleIdle /\ MainIdle /\ ScanIdle /\ ValidIdle /\ ReportIdle /\ FrameIdle

CreatePageBasedSections ==
    /\ prog = "page_based"
    /\ pc = "pages"
    /\ entries' = create_page_based_sections(pages, DocTitle)
    /\ pc' = "created"
    /\ UNCHANGED <<prog, pages, headings, ScanVars,
                   ReconcileVars, GapVars, TitleVars, MainVars, ValidVars, ReportVars, FrameVars>>

NextPageBased == CreatePageBasedSections

SpecPageBased == InitPageBased /\ [][NextPageBased]_vars

(***************************************************************************)
(* The three producers of records, each on its own input                   *)
(***************************************************************************)
InitRecords == InitToc \/ InitBuild \/ InitPageBased

NextRecords == ParseTocEntries \/ BuildSections \/ CreatePageBasedSections

SpecRecords == InitRecords /\ [][NextRecords]_vars

(***************************************************************************)
(* parse_sections.main from the extracted page texts on                    *)
(***************************************************************************)
InitPipeline ==
    /\ prog = "main"
    /\ pc = "pages"
    /\ pages \in PipelineDocuments
    /\ headings = <<>>
    /\ entries = <<>>
    /\ ReconcileIdle /\ GapIdle /\ TitleIdle /\ MainIdle /\ ScanIdle /\ ValidIdle /\ ReportIdle /\ FrameIdle

ParseSections ==
    /\ prog = "main"
    /\ pc = "pages"
    /\ findings' = heading_findings(pages)
    /\ headings' = find_headings(pages)
    /\ structured_sections' = build_sections(pages, headings', DOC_TITLE_DEFAULT)
    /\ page_based_sections' =
        IF needs_page_based(structured_sections')
        THEN Bound(create_page_based_sections(pages, DOC_TITLE_DEFAULT))
        ELSE Unbound
    /\ approach' =
        IF /\ page_based_sections'.bound
           /\ prefers_page_based(structured_sections', page_based_sections'.value)
        THEN "page-based"
        ELSE "structured"
    /\ sections' =
        IF approach' = "page-based" THEN page_based_sections' ELSE Bound(structured_sections')
    /\ pc' = "written"
    /\ UNCHANGED <<prog, pages, entries, toc_text, page_count,
                   ReconcileVars, GapVars, TitleVars, ValidVars, ReportVars, FrameVars>>

NextPipeline == ParseSections

SpecPipeline == InitPipeline /\ [][NextPipeline]_vars

(***************************************************************************)
(* The two outlines, each from its own input                               *)
(***************************************************************************)
InitOutlines == InitToc \/ InitPipeline

NextOutlines == ParseTocEntries \/ ParseSections

SpecOutlines == InitOutlines /\ [][NextOutlines]_vars

(***************************************************************************)
(* The calls that are given lists: build_sections, compare_toc_vs_spec and *)
(* detect_gaps                                                             *)
(***************************************************************************)
InitFrames == InitBuild \/ InitReconcile \/ InitGaps

NextFrames == BuildSections \/ compare_toc_vs_spec \/ DetectGaps

SpecFrames == InitFrames /\ [][NextFrames]_vars

(***************************************************************************)
(* is_valid_section_title on a candidate title                             *)
(***************************************************************************)
InitValid ==
    /\ prog = "valid"
    /\ pc = "title"
    /\ candidate_title \in CandidateTitles
    /\ title_valid = Unbound
    /\ ReconcileIdle /\ GapIdle /\ TitleIdle /\ MainIdle /\ BuildIdle /\ ScanIdle /\ ReportIdle /\ FrameIdle

ValidateTitle ==
    /\ prog = "valid"
    /\ pc = "title"
    /\ title_valid' = Bound(is_valid_section_title(candidate_title))
    /\ pc' = "returned"
    /\ UNCHANGED <<prog, candidate_title, ReconcileVars, GapVars, TitleVars, MainVars,
                   BuildVars, ScanVars, ReportVars, FrameVars>>

NextValid == ValidateTitle

SpecValid == InitValid /\ [][NextValid]_vars

(***************************************************************************)
(* Claims about the reconciler                                             *)
(***************************************************************************)
Compared == prog = "reconcile" /\ pc = "compared"

NoDuplicates(seq) == \A i, j \in 1..Len(seq) : seq[i] = seq[j] => i = j

\* C1 (as amended): after compare_toc_vs_spec, missing lists exactly the ids
\* that occur in toc_ids and not in section_ids and extra exactly the ids that
\* occur in section_ids and not in toc_ids, each id once; when both sequences
\* are duplicate-free and hold the same ids in the same order, missing, extra
\* and order_mismatches are all empty.
C1_SetAlgebra ==
    Compared =>
        /\ Range(missing) = Range(toc_ids) \ Range(spec_ids)
        /\ Range(extra) = Range(spec_ids) \ Range(toc_ids)
        /\ NoDuplicates(missing)
        /\ NoDuplicates(extra)
        /\ (toc_ids = spec_ids /\ NoDuplicates(toc_ids) =>
                missing = <<>> /\ extra = <<>> /\ order_mismatches = <<>>)

C1_Witness ==
    /\ Compared
    /\ toc_ids = spec_ids
    /\ Len(toc_ids) = 3
    /\ NoDuplicates(toc_ids)
    /\ order_mismatches = <<>>

\* C1 as stated: whenever both sequences hold the same ids in the same order,
\* missing, extra and order_mismatches are all empty (repeated ids included).
C1_Original ==
    Compared /\ toc_ids = spec_ids =>
        missing = <<>> /\ extra = <<>> /\ order_mismatches = <<>>

SortedByNumericKey(seq) ==
    \A i, j \in 1..Len(seq) :
        i < j => ~IntsLess(numeric_key(seq[j]), numeric_key(seq[i]))

\* C2: the missing list and the extra list are sorted by the numeric key of
\* the section id ("2.9" before "2.10"), not lexicographically.
C2_NumericOrder ==
    Compared => SortedByNumericKey(missing) /\ SortedByNumericKey(extra)

\* The positions of toc_ids whose id also occurs in section_ids.
CommonPositions == {k \in 1..Len(toc_ids) : toc_ids[k] \in Range(spec_ids)}

\* The index of toc_ids[k] in section_ids (of its last occurrence there).
SectionIndex(k) ==
    CHOOSE i \in 0..(Len(spec_ids) - 1) :
        /\ spec_ids[i + 1] = toc_ids[k]
        /\ \A j \in (i + 1)..(Len(spec_ids) - 1) : spec_ids[j + 1] # toc_ids[k]

\* The ids of toc_ids at the positions P, in ToC order.
IdsAt(P) ==
    [i \in 1..Cardinality(P) |->
        toc_ids[CHOOSE k \in P : Cardinality({m \in P : m < k}) = i - 1]]

FlaggedBelowPrevious ==
    {k \in CommonPositions :
        \E m \in CommonPositions :
            /\ m < k
            /\ \A n \in CommonPositions : n < k => n <= m
            /\ SectionIndex(k) < SectionIndex(m)}

FlaggedBelowMaximum ==
    {k \in CommonPositions :
        \E m \in CommonPositions : m < k /\ SectionIndex(k) < SectionIndex(m)}

\* C3 (as amended): find_order_mismatches walks the ids of toc_ids that also
\* occur in section_ids, in ToC order, and flags an id exactly when its index
\* in section_ids is less than the index of the common id walked immediately
\* before it (the first common id is never flagged).
C3_FlagsBelowPrevious ==
    Compared => order_mismatches = IdsAt(FlaggedBelowPrevious)

C3_Witness ==
    /\ Compared
    /\ Cardinality(CommonPositions) = 3
    /\ Len(order_mismatches) = 1
    /\ FlaggedBelowMaximum # FlaggedBelowPrevious

\* C3 as stated: an id is flagged exactly when its index in section_ids is less
\* than the maximum index seen among the common ids walked before it.  It is
\* stated here for duplicate-free sequences only, where "index" has one reading.
C3_Original ==
    Compared /\ NoDuplicates(toc_ids) /\ NoDuplicates(spec_ids) =>
        order_mismatches = IdsAt(FlaggedBelowMaximum)

(***************************************************************************)
(* Claims about the gap detector                                           *)
(***************************************************************************)
Detected == prog = "gaps" /\ pc = "detected"

\* The id sid is the child of parent p: p, a dot, and one more component; or,
\* for the root group, an id without a dot.
IsChildOf(sid, p) ==
    IF p = Root THEN ~Contains(sid, ".")
    ELSE /\ Len(sid) > Len(p) + 1
         /\ SubSeq(sid, 1, Len(p)) = p
         /\ sid[Len(p) + 1] = "."
         /\ \A i \in (Len(p) + 2)..Len(sid) : sid[i] # "."

FinalComponent(sid, p) ==
    IF p = Root THEN ParseInt(sid)
    ELSE ParseInt(SubSeq(sid, Len(p) + 2, Len(sid)))

GapGroups ==
    {p \in {Root} \cup UNION {{SubSeq(section_ids[i], 1, k) : k \in 1..Len(section_ids[i])} :
                                i \in 1..Len(section_ids)} :
        \E i \in 1..Len(section_ids) : IsChildOf(section_ids[i], p)}

GroupMembers(p) == {i \in 1..Len(section_ids) : IsChildOf(section_ids[i], p)}

GroupNumbers(p) == {FinalComponent(section_ids[i], p) : i \in GroupMembers(p)}

\* The integers strictly between the smallest and the largest final component
\* of the group that no member has.
GroupHoles(p) ==
    LET nums == GroupNumbers(p)
        lo == CHOOSE a \in nums : \A b \in nums : a <= b
        hi == CHOOSE a \in nums : \A b \in nums : a >= b
    IN  {n \in (lo + 1)..(hi - 1) : n \notin nums}

Ascending(S) ==
    [i \in 1..Cardinality(S) |-> CHOOSE x \in S : Cardinality({y \in S : y < x}) = i - 1]

HoleIds(p) ==
    LET holes == Ascending(GroupHoles(p))
    IN  [i \in 1..Len(holes) |->
            IF p = Root THEN RenderInt(holes[i]) ELSE p \o <<".">> \o RenderInt(holes[i])]

ExpectedGaps ==
    {<<IF p = Root THEN TopLevel ELSE p, Join(HoleIds(p), <<",", " ">>)>> :
        p \in {q \in GapGroups : Cardinality(GroupMembers(q)) >= 2 /\ GroupHoles(q) # {}}}

\* C4: detect_gaps groups ids by parent (root ids under a sentinel) and, for
\* every group with at least 2 members, reports exactly the integers strictly
\* between the smallest and the largest final component of the group that no
\* member has as its final component, rendered as dotted ids under that
\* parent; a group without such an integer, and a single-member group, gives
\* no gap record.
C4_Gaps ==
    Detected =>
        /\ Range(gaps) = ExpectedGaps
        /\ Len(gaps) = Cardinality(ExpectedGaps)
        /\ (section_ids = <<S2_1, S2_2, S2_4>> =>
                gaps = <<<<S2, <<"2", ".", "3">>>>>>)
        /\ (section_ids = <<S1, S2, S3>> => gaps = <<>>)

C4_Witness ==
    /\ Detected
    /\ section_ids = <<S2_1, S2_2, S2_4>>
    /\ gaps = <<<<S2, <<"2", ".", "3">>>>>>

(***************************************************************************)
(* Claims about title normalization                                        *)
(***************************************************************************)
Title == <<"T", "i", "t", "l", "e">>

\* C10: normalize_title removes dot leaders and collapses whitespace, so that
\* "Title .......... " and "Title . . . . ." both normalize to "Title", and it
\* is idempotent: normalizing a normalized title changes nothing.
C10_Normalize ==
    /\ (prog = "title" /\ pc # "raw" /\ raw_title \in {TitleWithLeaders, TitleWithSpacedDots}
            => title = Title)
    /\ (prog = "title" /\ pc = "renormalized" => title_again = title)

C10_Witness ==
    /\ prog = "title"
    /\ pc = "renormalized"
    /\ raw_title = <<"T", ".", ".", "T", ".">>
    /\ title = <<"T", " ", "T">>
    /\ title_again = title

(***************************************************************************)
(* Claims about the choice between the two builds                          *)
(***************************************************************************)
Written == prog = "select" /\ pc = "written"

PageBasedTaken == approach = "page-based" /\ sections = page_based_sections

StructuredTaken == approach = "structured" /\ sections = Bound(structured_sections)

\* C5 (as amended): the page-based result is taken exactly when the
\* structured build has fewer than 100 sections and the page-based build
\* strictly more than twice as many; in every other case the structured result
\* is taken, and with 100 or more structured sections the page-based builder
\* is not invoked.  Structured 40 with page-based 80 takes structured; with 90
\* or with 200, page-based.
C5_Selection ==
    Written =>
        LET ns == Len(structured_sections)
            invoked == page_based_sections.bound
            np == IF invoked THEN Len(page_based_sections.value) ELSE 0
        IN  /\ invoked <=> ns < 100
            /\ IF ns < 100 /\ np > 2 * ns THEN PageBasedTaken ELSE StructuredTaken
            /\ (ns = 40 /\ np = 80 => StructuredTaken)
            /\ (ns = 40 /\ np = 90 => PageBasedTaken)
            /\ (ns = 40 /\ np = 200 => PageBasedTaken)

\* C5 as stated, in its example: structured 40 with page-based 90 takes the
\* structured result.
C5_Original ==
    Written /\ Len(structured_sections) = 40 /\ page_based_sections.bound
        /\ Len(page_based_sections.value) = 90
        => StructuredTaken

C5_Witness ==
    /\ Written
    /\ Len(structured_sections) = 40
    /\ page_based_sections.bound
    /\ Len(page_based_sections.value) = 200
    /\ PageBasedTaken

(***************************************************************************)
(* Claims about build_sections                                             *)
(***************************************************************************)
Built == prog = "build" /\ pc = "built"

\* The heading a is not after the heading b in the order by (page, numeric key
\* of the id).
NotAfter(a, b) ==
    \/ a[3] < b[3]
    \/ a[3] = b[3] /\ ~IntsLess(numeric_key(b[1]), numeric_key(a[1]))

\* The orders of the headings by (page, numeric key): order[i] is the position
\* in headings of the heading at position i.
HeadingOrders ==
    {order \in Permutations(1..Len(headings)) :
        \A i, j \in 1..Len(headings) :
            i < j => NotAfter(headings[order[i]], headings[order[j]])}

Clamp(p) == IF p < 1 THEN 1 ELSE IF p > Len(pages) THEN Len(pages) ELSE p

PagesIn(first, last) ==
    [k \in 1..(IF last >= first THEN last - first + 1 ELSE 0) |-> pages[first + k - 1]]

\* The trimmed concatenation, joined by a blank line, of the texts of the
\* pages first..last.
ContentOf(first, last) ==
    Strip(Join(PagesIn(first, last), <<"\n", "\n">>), Whitespace)

\* The section at position i covers the pages first..last and holds their text.
Covers(i, first, last) ==
    /\ entries[i].page = first
    /\ entries[i].content = ContentOf(first, last)

\* C6 (as amended): build_sections orders headings by (page, numeric key of
\* id); the section of the heading at position i that is not the last covers
\* exactly the pages [page_i, page_{i+1} - 1], or the page page_i alone when
\* the next heading is on that same page, clamped to [1, num_pages]; the last
\* heading's section covers page_last through the final page; each section's
\* content is the trimmed concatenation, joined by a blank line, of exactly
\* the page texts in its range.
C6_PageRanges ==
    Built /\ pages # <<>> =>
        /\ Len(entries) = Len(headings)
        /\ \E order \in HeadingOrders :
            \A i \in 1..Len(headings) :
                LET h == headings[order[i]]
                IN  /\ entries[i].section_id = h[1]
                    /\ IF i = Len(headings)
                       THEN Covers(i, Clamp(h[3]), Len(pages))
                       ELSE LET next == headings[order[i + 1]]
                            IN  IF next[3] = h[3]
                                THEN Covers(i, Clamp(h[3]), Clamp(h[3]))
                                ELSE Covers(i, Clamp(h[3]), Clamp(next[3] - 1))
        /\ (pages = ScenarioPages /\ headings = ScenarioHeadings =>
                /\ entries[1].content = ContentOf(1, 2)
                /\ entries[2].content = ContentOf(3, 4)
                /\ entries[3].content = ContentOf(5, 6))

C6_Witness ==
    /\ Built
    /\ Len(pages) = 3
    /\ Len(entries) = 2
    /\ entries[1].page = 2
    /\ entries[2].page = 2
    /\ entries[1].section_id = S2_9
    /\ entries[2].section_id = S2_10
    /\ entries[1].content = ContentOf(2, 2)
    /\ entries[2].content = ContentOf(2, 3)

\* C6 as stated: the section of every heading that is not the last covers
\* exactly the pages [page_i, page_{i+1} - 1] clamped to [1, num_pages], which
\* are no pages when the next heading is on the same page.
C6_Original ==
    Built /\ pages # <<>> =>
        \E order \in HeadingOrders :
            \A i \in 1..(Len(headings) - 1) :
                LET h == headings[order[i]]
                    next == headings[order[i + 1]]
                IN  /\ entries[i].section_id = h[1]
                    /\ entries[i].content =
                           IF next[3] = h[3] /\ 1 < h[3] /\ h[3] <= Len(pages)
                           THEN <<>>
                           ELSE ContentOf(Clamp(h[3]), Clamp(next[3] - 1))

\* Every heading is on a page of the document.
HeadingsInDocument ==
    /\ pages # <<>>
    /\ headings # <<>>
    /\ \A k \in 1..Len(headings) : headings[k][3] \in 1..Len(pages)

\* The section at position i starts on its page and holds the text of the
\* pages up to last.
EndsOn(i, last) ==
    /\ entries[i].page <= last
    /\ last <= Len(pages)
    /\ Covers(i, entries[i].page, last)

\* C27: for a document of at least one page and a non-empty list of headings
\* on pages of the document, every section build_sections returns has a
\* range of pages that is not empty, from its first page (the page of its
\* heading, also when another heading is on that page) to a last page, with
\* 1 <= first <= last <= num_pages; and every page from the smallest heading
\* page to the final page is in the range of at least one section.
C27_PageCoverage ==
    Built /\ HeadingsInDocument =>
        /\ Len(entries) = Len(headings)
        /\ \A i \in 1..Len(entries) :
              /\ entries[i].page >= 1
              /\ \E k \in 1..Len(headings) :
                    headings[k][1] = entries[i].section_id /\ headings[k][3] = entries[i].page
              /\ \E last \in 1..Len(pages) : EndsOn(i, last)
        /\ \A p \in SetMin({headings[k][3] : k \in 1..Len(headings)})..Len(pages) :
              \E i \in 1..Len(entries) :
                  \E last \in p..Len(pages) : entries[i].page <= p /\ EndsOn(i, last)

\* Two headings on the second page of a document of three pages: both
\* sections hold the second page and the last one the third page as well.
C27_Witness ==
    /\ Built
    /\ HeadingsInDocument
    /\ Len(pages) = 3
    /\ Len(entries) = 2
    /\ entries[1].page = 2 /\ EndsOn(1, 2)
    /\ entries[2].page = 2 /\ EndsOn(2, 3)
    /\ entries[1].section_id # entries[2].section_id

(***************************************************************************)
(* Claims about find_headings                                              *)
(***************************************************************************)
Found == prog = "headings" /\ pc = "found"

\* The pages on which a heading with the id sid was detected.
DetectedPages(sid) == {findings[k][3] : k \in {j \in 1..Len(findings) : findings[j][1] = sid}}

DetectedIds == {findings[k][1] : k \in 1..Len(findings)}

\* The positions of the returned list that hold a heading with the id sid.
Returned(sid) == {i \in 1..Len(headings) : headings[i][1] = sid}

\* C7: when find_headings detects one section id on several pages, exactly
\* one heading with that id is in the returned list, and it is a candidate
\* found on the smallest of those pages; every returned heading is a detected
\* one, and the function returns for every document.
C7_KeepsSmallestPage ==
    Found =>
        /\ \A sid \in DetectedIds :
            /\ Cardinality(Returned(sid)) = 1
            /\ \A i \in Returned(sid) :
                /\ \A p \in DetectedPages(sid) : headings[i][3] <= p
                /\ \E k \in 1..Len(findings) : findings[k] = headings[i]
        /\ \A i \in 1..Len(headings) : headings[i][1] \in DetectedIds

C7_Witness ==
    /\ Found
    /\ \E sid \in DetectedIds :
        /\ Cardinality(DetectedPages(sid)) = 2
        /\ \E i \in Returned(sid) :
            /\ headings[i][3] = 2
            /\ \E k \in 1..Len(findings) :
                findings[k][1] = sid /\ findings[k][2] # headings[i][2]

(***************************************************************************)
(* Claims about parse_toc_entries                                          *)
(***************************************************************************)
Parsed == prog = "toc" /\ pc = "parsed"

\* The ToC lines with a valid page number and an undated title, in the order
\* of the text.
ValidTocLines ==
    SelectSeq(toc_finditer(toc_text, 1),
              LAMBDA m : /\ ParseInt(m.page) >= 1
                         /\ ParseInt(m.page) <= page_count
                         /\ ~HasYear(normalize_title(m.title)))

TocLinePages(sid) ==
    {ParseInt(ValidTocLines[k].page) :
        k \in {j \in 1..Len(ValidTocLines) : ValidTocLines[j].sid = sid}}

\* C8: when one section id is on several ToC lines with valid page numbers,
\* parse_toc_entries retains exactly one entry for it, the occurrence with the
\* smallest page number, whatever the order of the lines in the text.
C8_KeepsSmallestPage ==
    Parsed =>
        \A k \in 1..Len(ValidTocLines) :
            LET sid == ValidTocLines[k].sid
                kept == {i \in 1..Len(entries) : entries[i].section_id = sid}
            IN  /\ Cardinality(kept) = 1
                /\ \A i \in kept : entries[i].page = SetMin(TocLinePages(sid))

(***************************************************************************)
(* Claims about the records                                                *)
(***************************************************************************)
Produced ==
    \/ prog = "toc" /\ pc = "parsed"
    \/ prog = "build" /\ pc = "built"
    \/ prog = "page_based" /\ pc = "created"

DotPositions(sid) == {k \in 1..Len(sid) : sid[k] = "."}

\* sid without its last dotted component.
WithoutLastComponent(sid) == SubSeq(sid, 1, SetMax(DotPositions(sid)) - 1)

\* C9: every record of parse_toc_entries, build_sections and
\* create_page_based_sections has level = (number of "." in section_id) + 1,
\* at least 1; its parent_id is the section_id without its last component
\* when level > 1 and is absent exactly when level = 1 (the parent of 2.1.2 is
\* 2.1, that of 1 is absent); its full_path is the section_id, a space and
\* the title.
C9_LevelParentPath ==
    Produced =>
        \A i \in 1..Len(entries) :
            LET e == entries[i]
            IN  /\ e.level = Cardinality(DotPositions(e.section_id)) + 1
                /\ e.level >= 1
                /\ (e.parent_id = None) <=> (e.level = 1)
                /\ e.level > 1 => e.parent_id = WithoutLastComponent(e.section_id)
                /\ e.section_id = <<"2", ".", "1", ".", "2">>
                       => e.parent_id = <<"2", ".", "1">>
                /\ e.section_id = S1 => e.parent_id = None
                /\ e.full_path = e.section_id \o <<" ">> \o e.title

C9_Witness ==
    /\ prog = "toc" /\ pc = "parsed"
    /\ \E i, j \in 1..Len(entries) :
        /\ entries[i].section_id = <<"2", ".", "1", ".", "2">>
        /\ entries[i].level = 3
        /\ entries[i].parent_id = <<"2", ".", "1">>
        /\ entries[j].section_id = S1
        /\ entries[j].parent_id = None

(***************************************************************************)
(* Claims about the order and the identity of the records                  *)
(***************************************************************************)
\* The integers of a section id, read component by component.
IdNumbers(sid) ==
    LET dots == DotPositions(sid)
        stops == dots \cup {0, Len(sid) + 1}
    IN  [k \in 1..(Cardinality(dots) + 1) |->
            LET from == CHOOSE d \in stops : Cardinality({x \in stops : x < d}) = k - 1
                to == CHOOSE d \in stops : Cardinality({x \in stops : x < d}) = k
            IN  ParseInt(SubSeq(sid, from + 1, to - 1))]

\* Python's order of integer tuples: at the first position where they differ
\* a holds the smaller number, or a is a proper prefix of b.
TupleBefore(a, b) ==
    \/ \E k \in 1..Min(Len(a), Len(b)) :
        /\ a[k] < b[k]
        /\ \A j \in 1..(k - 1) : a[j] = b[j]
    \/ Len(a) < Len(b) /\ \A j \in 1..Len(a) : a[j] = b[j]

\* C11: in the list find_headings returns, a heading whose id's integer tuple
\* is less than that of another heading's id is before it, whatever the
\* lengths of the ids as strings (2.9 before 2.10).
C11_NumericOrder ==
    Found =>
        \A i, j \in 1..Len(headings) :
            TupleBefore(IdNumbers(headings[i][1]), IdNumbers(headings[j][1])) => i < j

C11_Witness ==
    /\ Found
    /\ \E i, j \in 1..Len(headings) :
        /\ i < j
        /\ headings[i][1] = S2_9
        /\ headings[j][1] = S2_10
        /\ headings[j][3] < headings[i][3]

Emitted == prog = "main" /\ pc = "written"

\* The outline a run has produced: the ToC entries, or the sections written.
Outline == IF Emitted THEN sections.value ELSE entries

\* C12: within one produced outline no two records share a section_id, in
\* the ToC outline of parse_toc_entries and in the section outline of the
\* section pipeline, whichever of its two builds it emits.
C12_UniqueIds ==
    Parsed \/ Emitted =>
        \A i, j \in 1..Len(Outline) :
            Outline[i].section_id = Outline[j].section_id => i = j

C12_Witness ==
    /\ Emitted
    /\ approach = "structured"
    /\ Len(Outline) >= 2
    /\ Len(findings) > Len(Outline)

(***************************************************************************)
(* Claims about the shape of section ids                                   *)
(***************************************************************************)
\* The components of sid between its dots.
IdComponents(sid) ==
    LET stops == DotPositions(sid) \cup {0, Len(sid) + 1}
    IN  {SubSeq(sid, from + 1, to - 1) :
            <<from, to>> \in {st \in stops \X stops :
                /\ st[1] < st[2]
                /\ \A d \in stops : ~(st[1] < d /\ d < st[2])}}

\* A decimal numeral of a positive integer.
IsPositiveInteger(numeral) ==
    /\ numeral # <<>>
    /\ \A k \in 1..Len(numeral) : numeral[k] \in Digits
    /\ \E k \in 1..Len(numeral) : numeral[k] # "0"

\* C13: the section_id of every ToC entry, structured section and
\* page-fallback section is a dot-delimited sequence of positive integers.
C13_PositiveIntegerIds ==
    Parsed \/ Emitted =>
        \A i \in 1..Len(Outline) :
            \A numeral \in IdComponents(Outline[i].section_id) :
                IsPositiveInteger(numeral)

(***************************************************************************)
(* Claims about the title validator                                        *)
(***************************************************************************)
Validated == prog = "valid" /\ pc = "returned"

\* The title is empty or holds white space only.
IsBlank(t) == \A k \in 1..Len(t) : t[k] \in Whitespace

\* The title holds a token 19xx or 20xx: four digits, with no letter, digit
\* or underscore next to them.
HasYearToken(t) ==
    \E k \in 1..(Len(t) - 3) :
        /\ <<t[k], t[k + 1]>> \in {<<"1", "9">>, <<"2", "0">>}
        /\ t[k + 2] \in Digits /\ t[k + 3] \in Digits
        /\ k = 1 \/ t[k - 1] \notin WordChars
        /\ k + 3 = Len(t) \/ t[k + 4] \notin WordChars

\* The title holds the phrase, in whatever case.
HoldsPhrase(t, phrase) ==
    \E k \in 0..(Len(t) - Len(phrase)) :
        \A j \in 1..Len(phrase) : Lower(t[k + j]) = phrase[j]

\* The title matches a known boilerplate phrase: one of the literal phrases,
\* an ECN list, a page footer or the name of the specification.
IsBoilerplate(t) ==
    \/ \E phrase \in RevisionPhrases : HoldsPhrase(t, phrase)
    \/ HasEcns(t)
    \/ HasPageNumber(t)
    \/ HasSpecificationName(t)

\* Fewer than 0.2 times its length of the title's characters are letters.
HasFewLetters(t) == 5 * Cardinality({k \in 1..Len(t) : t[k] \in Letters}) < Len(t)

C15_ShortTitlesRejected ==
    Validated /\ Len(candidate_title) <= 1 => ~title_valid.value

(***************************************************************************)
(* Claims about the pages of the ToC entries                               *)
(***************************************************************************)
\* The lines of the ToC text, and the fields of a line "id title page": the
\* id is before the first blank, the page token after the last one.
TextLines == Split(toc_text, "\n")

Blanks(line) == {k \in 1..Len(line) : line[k] \in Whitespace}

LineId(line) == SubSeq(line, 1, SetMin(Blanks(line)) - 1)

LineTitle(line) == SubSeq(line, SetMin(Blanks(line)) + 1, SetMax(Blanks(line)) - 1)

LineToken(line) == SubSeq(line, SetMax(Blanks(line)) + 1, Len(line))

HasPageToken(line) ==
    /\ Cardinality(Blanks(line)) >= 2
    /\ LineToken(line) # <<>>
    /\ \A k \in 1..Len(LineToken(line)) : LineToken(line)[k] \in Digits

\* The value of a page token.
TokenValue(token) ==
    CHOOSE n \in 0..9999 : RenderInt(n) = token

InRange(line) ==
    /\ HasPageToken(line)
    /\ TokenValue(LineToken(line)) >= 1
    /\ TokenValue(LineToken(line)) <= page_count

\* The lines parse_toc_entries may take an entry from: in range and undated.
Acceptable(line) == InRange(line) /\ ~HasYearToken(LineTitle(line))

\* C16: every entry of parse_toc_entries has a page p with 1 <= p <=
\* num_pages and comes from a line with that page token; a line whose page
\* token is 0 or greater than num_pages gives no entry and does not keep a
\* later line of the same id that is in range from being accepted: the entry
\* of an id is that of its first acceptable line.
C16_PagesInRange ==
    Parsed =>
        /\ \A i \in 1..Len(entries) :
            /\ entries[i].page >= 1
            /\ entries[i].page <= page_count
            /\ \E k \in 1..Len(TextLines) :
                /\ Acceptable(TextLines[k])
                /\ LineId(TextLines[k]) = entries[i].section_id
                /\ TokenValue(LineToken(TextLines[k])) = entries[i].page
        /\ \A k \in 1..Len(TextLines) :
            Acceptable(TextLines[k])
            /\ (\A j \in 1..(k - 1) :
                    Acceptable(TextLines[j]) => LineId(TextLines[j]) # LineId(TextLines[k]))
            => \E i \in 1..Len(entries) :
                /\ entries[i].section_id = LineId(TextLines[k])
                /\ entries[i].page = TokenValue(LineToken(TextLines[k]))

\* A line with page 0 and a line beyond the document come before the line of
\* the same id that is taken.
C16_Witness ==
    /\ Parsed
    /\ page_count = 5
    /\ Len(TextLines) = 3
    /\ LineToken(TextLines[1]) = <<"0">>
    /\ LineToken(TextLines[2]) = <<"7">>
    /\ LineId(TextLines[1]) = S1 /\ LineId(TextLines[2]) = S1
    /\ Len(entries) = 1
    /\ entries[1].section_id = S1
    /\ entries[1].page = 3

(***************************************************************************)
(* validate_and_report.main: perform_validation, then create_excel_report  *)
(***************************************************************************)
MaxFileLines == 2

\* Rows: with an id and a title, with an id alone, with a title alone.
TitledRow == [section_id |-> S1, title |-> "Intro"]

UntitledRow == [section_id |-> S2]

RowWithoutId == [title |-> "Intro"]

FileLines == {BlankLine, Junk, Json(TitledRow), Json(UntitledRow), Json(RowWithoutId)}

\* The files an error keeps from being read.
UnreadableFiles == {UnreadableFile("PermissionError"), UnreadableFile("UnicodeDecodeError")}

RecordFiles ==
    {MissingFile, UnreadableFile("PermissionError")}
        \cup {FileOf(lines) : lines \in SeqsUpTo(FileLines, MaxFileLines)}

\* The schema of the rows: both keys are required.
RowSchema == Schema(<<"section_id", "title">>)

SchemaFiles ==
    {MissingFile, FileOf(Junk), FileOf(Json(EmptySchema)), FileOf(Json(RowSchema))}
        \cup UnreadableFiles

\* The document, with the ids of its list of tables and of its captions.
Document == FileOf([toc_table_ids |-> <<S1, S2>>, doc_table_ids |-> <<S1>>])

DocumentFiles == {MissingFile, UnreadableFile("PermissionError"), Document}

\* The working directory with every file in place and the sink writable.
NominalDisk ==
    [toc |-> FileOf(<<Json(TitledRow), Json(UntitledRow)>>),
     spec |-> FileOf(<<Json(TitledRow)>>),
     schema_toc |-> FileOf(Json(RowSchema)),
     schema_sections |-> FileOf(Json(RowSchema)),
     pdf |-> Document,
     primary |-> "writable",
     alt |-> "writable"]

\* The working directories of a run: the nominal one with other record
\* files, with other schema files, or with another document and sink.
Disks ==
    {[NominalDisk EXCEPT !.toc = t, !.spec = c] : t \in RecordFiles, c \in RecordFiles}
        \cup {[NominalDisk EXCEPT !.schema_toc = t, !.schema_sections = c] :
                t \in SchemaFiles, c \in SchemaFiles}
        \cup {[NominalDisk EXCEPT !.pdf = d, !.primary = p, !.alt = a, !.toc = t] :
                d \in DocumentFiles, p \in {"writable", "denied", "failing"},
                a \in {"writable", "denied"}, t \in {MissingFile, NominalDisk.toc}}

InitReport ==
    /\ prog = "validate"
    /\ pc = "start"
    /\ disk \in Disks
    /\ toc_rows = Unbound
    /\ spec_rows = Unbound
    /\ errors_toc = Unbound
    /\ errors_spec = Unbound
    /\ compared = Unbound
    /\ result = Unbound
    /\ exception = Unbound
    /\ report = Unbound
    /\ ReconcileIdle /\ GapIdle /\ TitleIdle /\ MainIdle /\ BuildIdle /\ ScanIdle /\ ValidIdle /\ FrameIdle

\* One call of perform_validation or of main, at position from: the call
\* returns and the run goes on to position to, or it raises, and main prints
\* the exception and raises it again.
Step(from, to, call) ==
    /\ prog = "validate"
    /\ pc = from
    /\ pc' = IF call.raises THEN "raised" ELSE to
    /\ exception' = IF call.raises THEN Bound(call.exception) ELSE exception
    /\ UNCHANGED <<prog, disk>>

\* toc_rows = read_jsonl("usb_pd_toc.jsonl")
ReadTocRows ==
    LET call == read_jsonl(disk.toc)
    IN  /\ Step("start", "toc_read", call)
        /\ toc_rows' = IF call.raises THEN toc_rows ELSE Bound(call.value)
        /\ UNCHANGED <<spec_rows, errors_toc, errors_spec, compared, result, report,
                       ReconcileVars, GapVars, TitleVars, MainVars, BuildVars, ScanVars, ValidVars, FrameVars>>

\* spec_rows = read_jsonl("usb_pd_spec.jsonl")
ReadSpecRows ==
    LET call == read_jsonl(disk.spec)
    IN  /\ Step("toc_read", "spec_read", call)
        /\ spec_rows' = IF call.raises THEN spec_rows ELSE Bound(call.value)
        /\ UNCHANGED <<toc_rows, errors_toc, errors_spec, compared, result, report,
                       ReconcileVars, GapVars, TitleVars, MainVars, BuildVars, ScanVars, ValidVars, FrameVars>>

\* errors_toc = validate_rows(toc_rows, "schema_toc.json")
ValidateTocRows ==
    LET call == validate_rows(toc_rows.value, disk.schema_toc)
    IN  /\ Step("spec_read", "toc_validated", call)
        /\ errors_toc' = IF call.raises THEN errors_toc ELSE Bound(call.value)
        /\ UNCHANGED <<toc_rows, spec_rows, errors_spec, compared, result, report,
                       ReconcileVars, GapVars, TitleVars, MainVars, BuildVars, ScanVars, ValidVars, FrameVars>>

\* errors_spec = validate_rows(spec_rows, "schema_sections.json")
ValidateSpecRows ==
    LET call == validate_rows(spec_rows.value, disk.schema_sections)
    IN  /\ Step("toc_validated", "spec_validated", call)
        /\ errors_spec' = IF call.raises THEN errors_spec ELSE Bound(call.value)
        /\ UNCHANGED <<toc_rows, spec_rows, errors_toc, compared, result, report,
                       ReconcileVars, GapVars, TitleVars, MainVars, BuildVars, ScanVars, ValidVars, FrameVars>>

\* compare_toc_vs_spec(toc_rows, spec_rows), then detect_gaps on the ids of
\* the ToC rows and on those of the section rows.
CompareRows ==
    LET call == compare_rows(toc_rows.value, spec_rows.value)
        gaps_of(rows) == detect_gaps(get_section_ids(rows).value)
    IN  /\ Step("spec_validated", "compared", call)
        /\ compared' =
            IF call.raises THEN compared
            ELSE Bound([counts |-> call.value.counts,
                        missing |-> call.value.missing,
                        extra |-> call.value.extra,
                        order_mismatches |-> call.value.order_mismatches,
                        toc_gaps |-> gaps_of(toc_rows.value),
                        spec_gaps |-> gaps_of(spec_rows.value)])
        /\ UNCHANGED <<toc_rows, spec_rows, errors_toc, errors_spec, result, report,
                       ReconcileVars, GapVars, TitleVars, MainVars, BuildVars, ScanVars, ValidVars, FrameVars>>

\* The table analysis on PdfReader("usb_pd_spec.pdf"), and the
\* ValidationResult perform_validation returns.
AnalyzeTables ==
    LET call == analyze_tables(disk.pdf)
    IN  /\ Step("compared", "validated", call)
        /\ result' =
            IF call.raises THEN result
            ELSE Bound([counts |-> compared.value.counts,
                        missing |-> compared.value.missing,
                        extra |-> compared.value.extra,
                        order_mismatches |-> compared.value.order_mismatches,
                        toc_gaps |-> compared.value.toc_gaps,
                        spec_gaps |-> compared.value.spec_gaps,
                        errors_toc |-> errors_toc.value,
                        errors_spec |-> errors_spec.value,
                        toc_table_ids |-> call.value.toc_table_ids,
                        doc_table_ids |-> call.value.doc_table_ids])
        /\ UNCHANGED <<toc_rows, spec_rows, errors_toc, errors_spec, compared, report,
                       ReconcileVars, GapVars, TitleVars, MainVars, BuildVars, ScanVars, ValidVars, FrameVars>>

\* create_excel_report(result): the workbook of the result is built and saved.
CreateExcelReport ==
    LET call == save_workbook_with_fallback(disk.primary, disk.alt)
    IN  /\ Step("validated", "reported", call)
        /\ report' =
            IF call.raises THEN report
            ELSE Bound([path |-> call.value, workbook |-> create_excel_report(result.value)])
        /\ UNCHANGED <<toc_rows, spec_rows, errors_toc, errors_spec, compared, result,
                       ReconcileVars, GapVars, TitleVars, MainVars, BuildVars, ScanVars, ValidVars, FrameVars>>

NextReport ==
    \/ ReadTocRows
    \/ ReadSpecRows
    \/ ValidateTocRows
    \/ ValidateSpecRows
    \/ CompareRows
    \/ AnalyzeTables
    \/ CreateExcelReport

SpecReport == InitReport /\ [][NextReport]_vars

\* The positions from which the run makes its next call, and those at which
\* it has ended.
Running ==
    {"start", "toc_read", "spec_read", "toc_validated", "spec_validated", "compared",
     "validated"}

Ended == {"reported", "raised"}

\* The run comes to another position.
Proceed == prog = "validate" /\ pc \in Running /\ pc' \in (Running \cup Ended) \ {pc}

\* The run is one thread of a sequential program, and every call of it
\* returns or raises: from a position before its end the run proceeds.  Only
\* the steps of NextReport change pc, so this is weak fairness of NextReport.
SpecReportLive == SpecReport /\ WF_pc(Proceed)

(***************************************************************************)
(* Claims about the page-based build                                       *)
(***************************************************************************)
Created == prog = "page_based" /\ pc = "created"

\* The text without the white space at its ends.
Trimmed(text) ==
    LET inked == {k \in 1..Len(text) : text[k] \notin Whitespace}
    IN  IF inked = {} THEN <<>> ELSE SubSeq(text, SetMin(inked), SetMax(inked))

Numerals == <<"0", "1", "2", "3", "4", "5", "6", "7", "8", "9">>

\* The decimal numeral of a number below 100.
Decimal(n) ==
    IF n < 10 THEN <<Numerals[n + 1]>>
    ELSE <<Numerals[(n \div 10) + 1], Numerals[(n % 10) + 1]>>

\* The 1-based pages the page-based build keeps: past the first 5, with a
\* trimmed text of at least 50 characters.
KeptPages == {n \in 6..Len(pages) : Len(Trimmed(pages[n])) >= 50}

\* C17: create_page_based_sections emits exactly one section for each page
\* past the first 5 whose trimmed text has at least 50 characters, and none
\* for another page; the section of page N has section_id page_N, page N,
\* level 1, no parent, the trimmed text as content and the tag page_content;
\* the sections are in ascending page order; a structured section never has
\* that tag.
C17_PageFallback ==
    /\ Created =>
        /\ Len(entries) = Cardinality(KeptPages)
        /\ \A n \in KeptPages : \E i \in 1..Len(entries) : entries[i].page = n
        /\ \A i \in 1..Len(entries) :
            /\ entries[i].page \in KeptPages
            /\ entries[i].section_id = <<"p", "a", "g", "e", "_">> \o Decimal(entries[i].page)
            /\ entries[i].level = 1
            /\ entries[i].parent_id = None
            /\ entries[i].content = Trimmed(pages[entries[i].page])
            /\ \E k \in 1..Len(entries[i].tags) : entries[i].tags[k] = "page_content"
        /\ \A i, j \in 1..Len(entries) : i < j => entries[i].page < entries[j].page
    /\ Built =>
        \A i \in 1..Len(entries) :
            \A k \in 1..Len(entries[i].tags) : entries[i].tags[k] # "page_content"

\* A long page in the front matter and a short page in the body are left
\* out, the pages around the short one are kept.
C17_Witness ==
    /\ Created
    /\ Len(pages) = 8
    /\ Len(Trimmed(pages[2])) >= 50
    /\ Len(Trimmed(pages[7])) < 50
    /\ Len(entries) = 2
    /\ entries[1].page = 6
    /\ entries[2].page = 8

(***************************************************************************)
(* Claims about a document without headings                                *)
(***************************************************************************)
\* No page holds a digit, so no line of the document is numbered.
NoNumberedLine == \A n \in 1..Len(pages) : \A k \in 1..Len(pages[n]) : pages[n][k] \notin Digits

\* C18: after a run on any page sequence, the empty one, one shorter than
\* the default start index and one without a numbered line among them:
\* without a numbered line find_headings has found nothing; with nothing
\* found it has returned the empty list, build_sections has returned no
\* section, and the pipeline has called the page-based build and has selected
\* its result whenever that has at least one section.
C18_NoHeadingDegradation ==
    /\ Emitted =>
        /\ NoNumberedLine => findings = <<>>
        /\ findings = <<>> => headings = <<>>
        /\ headings = <<>> =>
            /\ structured_sections = <<>>
            /\ page_based_sections.bound
            /\ Len(page_based_sections.value) = Cardinality(KeptPages)
            /\ KeptPages # {} =>
                /\ sections = page_based_sections
                /\ approach = "page-based"
                /\ {sections.value[i].page : i \in 1..Len(sections.value)} = KeptPages

\* A document of more than 5 pages without a numbered line, written as its
\* page-based sections.
C18_Witness ==
    /\ Emitted
    /\ NoNumberedLine
    /\ headings = <<>>
    /\ structured_sections = <<>>
    /\ approach = "page-based"
    /\ Len(sections.value) = 1

\* The documents without headings that end with no section at all: the empty
\* one and one shorter than the default start index.
NoPagesNoSections ==
    /\ Emitted
    /\ Len(pages) \in {0, 3}
    /\ headings = <<>>
    /\ sections = Bound(<<>>)

(***************************************************************************)
(* Claims about the validation run                                         *)
(***************************************************************************)
Validating == prog = "validate"

\* The file is there and holds a line that is no JSON.
HasBadLine(file) ==
    /\ file.state = "content"
    /\ \E i \in 1..Len(file.content) : file.content[i].kind = "junk"

\* The schema file is not there, or it is there and cannot be read, or what is
\* read from it is no JSON.
Unavailable(file) ==
    \/ file.state \in {"missing", "unreadable"}
    \/ file.state = "content" /\ file.content.kind = "junk"

\* The calls of perform_validation that the run has made so far.
TocWasRead == Validating /\ (toc_rows.bound \/ pc = "raised")

SpecWasRead == Validating /\ toc_rows.bound /\ pc # "toc_read"

TocWasValidated == Validating /\ spec_rows.bound /\ pc # "spec_read"

SpecWasValidated == Validating /\ errors_toc.bound /\ pc # "toc_validated"

\* C19: read_jsonl returns the empty list, and raises nothing, for a records
\* file that is missing or holds a line that is no JSON; validate_rows
\* returns the empty list for a schema file that is missing or unreadable;
\* the run goes on after either.
C19_InputAbsenceNotFatal ==
    /\ TocWasRead /\ (disk.toc.state = "missing" \/ HasBadLine(disk.toc))
        => toc_rows = Bound(<<>>)
    /\ SpecWasRead /\ (disk.spec.state = "missing" \/ HasBadLine(disk.spec))
        => spec_rows = Bound(<<>>)
    /\ TocWasValidated /\ Unavailable(disk.schema_toc)
        => errors_toc = Bound(<<>>)
    /\ SpecWasValidated /\ Unavailable(disk.schema_sections)
        => errors_spec = Bound(<<>>)

\* The same for the files the code provides for: a schema file that is
\* missing or holds no JSON.
AbsenceProvidedFor ==
    /\ TocWasRead /\ (disk.toc.state = "missing" \/ HasBadLine(disk.toc))
        => toc_rows = Bound(<<>>)
    /\ SpecWasRead /\ (disk.spec.state = "missing" \/ HasBadLine(disk.spec))
        => spec_rows = Bound(<<>>)
    /\ TocWasValidated /\ Unavailable(disk.schema_toc) /\ disk.schema_toc.state # "unreadable"
        => errors_toc = Bound(<<>>)
    /\ SpecWasValidated /\ Unavailable(disk.schema_sections)
            /\ disk.schema_sections.state # "unreadable"
        => errors_spec = Bound(<<>>)

\* A run that has discarded the row before a bad line and has skipped the
\* validation against a missing schema.
AbsenceSurvived ==
    /\ Validating
    /\ pc = "reported"
    /\ disk.toc = FileOf(<<Json(TitledRow), Junk>>)
    /\ toc_rows = Bound(<<>>)

\* The document can be opened; the report can be saved to the primary path;
\* it can be saved to neither path.
Openable == disk.pdf.state = "content"

SinkWritable == disk.primary = "writable"

SinkRefuses == disk.primary # "writable" /\ disk.alt # "writable"

ReportWritten == Validating /\ pc = "reported" /\ report.bound

FailureRaised == Validating /\ pc = "raised" /\ exception.bound

\* A run with the document and the sink at hand writes a report.
ReportWhenAvailable == (Validating /\ Openable /\ SinkWritable) ~> ReportWritten

\* A run without the document, or without a path to save to, raises, and
\* writes no report.
FailureIsRaised ==
    /\ (Validating /\ (~Openable \/ SinkRefuses)) ~> FailureRaised
    /\ [](Validating /\ (~Openable \/ SinkRefuses) => ~ReportWritten)

\* The report of a run that read no row: zero counts and empty lists.
EmptyInputsEmptyReport ==
    ReportWritten /\ toc_rows = Bound(<<>>) /\ spec_rows = Bound(<<>>) =>
        LET book == result.value
        IN  /\ book.counts = Counts(<<>>, <<>>, <<>>, <<>>, <<>>)
            /\ book.counts.toc_total = 0 /\ book.counts.spec_total = 0
            /\ book.missing = <<>> /\ book.extra = <<>> /\ book.order_mismatches = <<>>
            /\ book.toc_gaps = <<>> /\ book.spec_gaps = <<>>
            /\ book.errors_toc = <<>> /\ book.errors_spec = <<>>

\* A run without record files that has written its report.
ReportWithoutRecords ==
    /\ ReportWritten
    /\ disk.toc = MissingFile
    /\ disk.spec = MissingFile

\* C20: a run of perform_validation and create_excel_report writes a report
\* in the end whenever the document can be opened and the sink is writable,
\* whatever the record files and the schemas are; when the document cannot
\* be opened or the report can be saved to neither path, the run raises the
\* failure to its caller.
C20_ReportAlwaysProduced == ReportWhenAvailable /\ FailureIsRaised

(***************************************************************************)
(* Claims about the sheets of the report                                   *)
(***************************************************************************)
\* The titles of the worksheets of the written report, in workbook order.
SheetTitles == [k \in DOMAIN report.value.workbook |-> report.value.workbook[k].title]

AnalysisSheets ==
    <<"overview", "missing_in_spec", "extra_in_spec", "order_mismatches", "gaps_toc",
      "gaps_spec">>

HasSheet(name) == \E k \in DOMAIN SheetTitles : SheetTitles[k] = name

\* C21: every written report holds the sheets overview, missing_in_spec,
\* extra_in_spec, order_mismatches, gaps_toc and gaps_spec, in that order, and
\* a sheet tables; it holds toc_schema_errors exactly when the list of ToC
\* violations is not empty and spec_schema_errors exactly when the list of
\* section violations is not empty; it holds no other sheet, and no title
\* twice.
C21_SheetContract ==
    ReportWritten =>
        /\ Len(SheetTitles) >= Len(AnalysisSheets)
        /\ SubSeq(SheetTitles, 1, Len(AnalysisSheets)) = AnalysisSheets
        /\ HasSheet("tables")
        /\ HasSheet("toc_schema_errors") <=> errors_toc.value # <<>>
        /\ HasSheet("spec_schema_errors") <=> errors_spec.value # <<>>
        /\ Range(SheetTitles) \subseteq
             Range(AnalysisSheets) \cup {"tables", "toc_schema_errors", "spec_schema_errors"}
        /\ NoDuplicates(SheetTitles)

\* A report written with ToC violations and without section violations: it
\* has eight sheets.
C21_Witness ==
    /\ ReportWritten
    /\ errors_toc.value # <<>>
    /\ errors_spec.value = <<>>
    /\ Len(SheetTitles) = 8

(***************************************************************************)
(* Claims about the order check and the counts                             *)
(***************************************************************************)
DuplicateFree == NoDuplicates(toc_ids) /\ NoDuplicates(spec_ids)

\* The ids common to both sequences come in the same relative order in both:
\* of two of them, the one that is earlier in toc_ids is earlier in
\* section_ids.
SameRelativeOrder ==
    \A k, m \in CommonPositions :
        k < m => \A i, j \in 1..Len(spec_ids) :
                    spec_ids[i] = toc_ids[k] /\ spec_ids[j] = toc_ids[m] => i < j

\* C22: for duplicate-free toc_ids and section_ids, find_order_mismatches
\* returns the empty list exactly when the ids common to both come in the
\* same relative order in both; two sequences of the same ids in another
\* order give at least one order mismatch while missing and extra are empty.
C22_CatchesReordering ==
    Compared /\ DuplicateFree =>
        /\ order_mismatches = <<>> <=> SameRelativeOrder
        /\ (Range(toc_ids) = Range(spec_ids) /\ toc_ids # spec_ids =>
                order_mismatches # <<>> /\ missing = <<>> /\ extra = <<>>)

\* Three ids, the same in both sequences, in another order: nothing is
\* missing or extra and the order check reports a mismatch.
C22_Witness ==
    /\ Compared
    /\ DuplicateFree
    /\ Len(toc_ids) = 3
    /\ Range(toc_ids) = Range(spec_ids)
    /\ toc_ids # spec_ids
    /\ missing = <<>> /\ extra = <<>>
    /\ order_mismatches # <<>>

\* C26: compare_toc_vs_spec returns the counts of its lists: toc_total is
\* len(toc_ids), spec_total (the section total) is len(section_ids),
\* missing_in_spec is len(missing), extra_in_spec is len(extra) and
\* order_errors is len(order_mismatches); missing and extra share no id and
\* repeat none; every id in order_mismatches is in both sequences; and for
\* duplicate-free sequences toc_total - missing_in_spec equals
\* spec_total - extra_in_spec.
C26_CountsConsistent ==
    Compared =>
        /\ counts.toc_total = Len(toc_ids)
        /\ counts.spec_total = Len(spec_ids)
        /\ counts.missing_in_spec = Len(missing)
        /\ counts.extra_in_spec = Len(extra)
        /\ counts.order_errors = Len(order_mismatches)
        /\ Range(missing) \cap Range(extra) = {}
        /\ NoDuplicates(missing) /\ NoDuplicates(extra)
        /\ Range(order_mismatches) \subseteq Range(toc_ids) \cap Range(spec_ids)
        /\ (DuplicateFree =>
              counts.toc_total - counts.missing_in_spec
                  = counts.spec_total - counts.extra_in_spec)

\* Duplicate-free sequences with a missing id, an extra id and an order
\* mismatch.
C26_Witness ==
    /\ Compared
    /\ DuplicateFree
    /\ counts.missing_in_spec > 0
    /\ counts.extra_in_spec > 0
    /\ counts.order_errors > 0

\* With a repeated id the two differences are not the same.
RepeatedIdsBreakBalance ==
    /\ Compared
    /\ ~DuplicateFree
    /\ counts.toc_total - counts.missing_in_spec # counts.spec_total - counts.extra_in_spec

(***************************************************************************)
(* Claims about the scan start                                             *)
(***************************************************************************)
\* The 1-based numbers of the pages one of the searches of
\* find_actual_document_start matches.
ContentPages == {i \in 1..Len(pages) : LooksLikeContent(pages[i])}

\* The 0-based index the claim gives the scan start.
ScanStart == IF ContentPages = {} THEN 5 ELSE SetMin(ContentPages) - 1

\* One of the patterns of find_headings matches a heading with the id sid in
\* the text of page p.
MatchedOn(sid, p) ==
    \E pattern \in {chapter_pattern, section_pattern, flexible_pattern, very_flexible_pattern} :
        \E m \in Range(finditer(pages[p], 1, pattern)) : m.sid = sid

\* C23: find_actual_document_start returns the smallest 0-based index of a
\* page that one of its searches matches, and 5 when no page matches; every
\* heading find_headings returns has a page number p with
\* scan start + 1 <= p <= number of pages, and the heading is matched on
\* page p.
C23_ScanStart ==
    Found =>
        /\ find_actual_document_start(pages) = ScanStart
        /\ \A k \in 1..Len(headings) :
              /\ ScanStart + 1 <= headings[k][3]
              /\ headings[k][3] <= Len(pages)
              /\ MatchedOn(headings[k][1], headings[k][3])

\* A document without a page the searches match, with a heading on its first
\* page: the scan starts at index 5, the heading of page 1 is not returned,
\* and headings of later pages are.
C23_Witness ==
    /\ Found
    /\ ContentPages = {}
    /\ Len(pages) > 5
    /\ HeadingMatch(pages[1], 1, very_flexible_pattern).found
    /\ headings # <<>>
    /\ \A k \in 1..Len(headings) : headings[k][3] >= 6

\* A heading on a page before the first page the searches match is not
\* returned.
SkipsEarlierPage ==
    /\ Found
    /\ ContentPages # {}
    /\ SetMin(ContentPages) > 1
    /\ HeadingMatch(pages[1], 1, very_flexible_pattern).found
    /\ headings # <<>>

(***************************************************************************)
(* Claims about the titles of the headings                                 *)
(***************************************************************************)
\* The title passes the four tests of the validator.
Accepted(t) == ~(IsBlank(t) \/ HasYearToken(t) \/ IsBoilerplate(t) \/ HasFewLetters(t))

\* The titles of the headings of a run: those find_headings returns in
\* document mode, those of the entries of parse_toc_entries in toc mode.
HeadingTitles ==
    IF Parsed THEN {entries[k].title : k \in 1..Len(entries)}
    ELSE {headings[k][2] : k \in 1..Len(headings)}

\* C24: every heading the extractor returns, in document mode (find_headings)
\* and in toc mode (parse_toc_entries, after the normalization of the title),
\* has a title the validator accepts: not empty, without a 4-digit year
\* token, no boilerplate phrase, and with at least 0.2 of its characters
\* letters.
C24_ValidatedTitles ==
    Parsed \/ Emitted => \A t \in HeadingTitles : Accepted(t)

\* In document mode every returned title is an accepted one.
DocumentTitlesAccepted ==
    Emitted => \A t \in HeadingTitles : Accepted(t) /\ is_valid_section_title(t)

\* In toc mode every returned title is normalized and without a year token.
TocTitlesUndated ==
    Parsed => \A t \in HeadingTitles : ~HasYearToken(t) /\ normalize_title(t) = t

\* A ToC whose entries hold an empty title.
EmptyTocTitle == Parsed /\ <<>> \in HeadingTitles

\* A document with headings returned.
DocumentHeadingsReturned == Emitted /\ Len(headings) >= 2

(***************************************************************************)
(* Claims about the lists a call is given                                  *)
(***************************************************************************)
\* The names of the lists the calls are given.
Parameters == {"pages", "headings", "toc_ids", "spec_ids", "section_ids"}

\* C25: build_sections leaves the list of pages and the list of headings it
\* is given as they were, contents and order; find_missing_and_extra_sections,
\* find_order_mismatches and detect_gaps leave the id sequences they are given
\* as they were; none of the lists a call returns is one it was given.
C25_InputsUnchanged ==
    [][/\ pages' = pages
       /\ headings' = headings
       /\ toc_ids' = toc_ids
       /\ spec_ids' = spec_ids
       /\ section_ids' = section_ids
       /\ returned' \cap Parameters = {}]_vars

\* build_sections has returned the sections of headings that were given in
\* another order than the one it builds them in.
C25_Witness ==
    /\ Built
    /\ returned = {"entries"}
    /\ Len(entries) >= 2
    /\ \E i \in 1..Len(entries) : entries[i].section_id # headings[i][1]

\* compare_toc_vs_spec has returned sorted lists from unsorted sequences.
ComparedUnsorted ==
    /\ Compared
    /\ returned = {"missing", "extra", "order_mismatches"}
    /\ ~SortedByNumericKey(toc_ids)
    /\ Len(missing) >= 2

\* detect_gaps has returned a gap from ids that are not in numeric order.
DetectedUnsorted ==
    /\ Detected
    /\ returned = {"gaps"}
    /\ gaps # <<>>
    /\ ~SortedByNumericKey(section_ids)

(***************************************************************************)
(* Claims about ids that are not numeric                                   *)
(***************************************************************************)
\* The last component of the id, the text after its last dot.
LastComponent(sid) ==
    IF Contains(sid, ".") THEN SubSeq(sid, SetMax(DotPositions(sid)) + 1, Len(sid)) ELSE sid

\* The last component is a numeral: digits only.
HasNumeral(sid) == IsDigits(LastComponent(sid))

\* The ids of the outline with a numeral as last component, in input order.
NumericIds == SelectSeq(section_ids, HasNumeral)

\* The label of the group of the id: the id without its last component, or
\* the label of the top level.
GroupLabel(sid) == IF Contains(sid, ".") THEN WithoutLastComponent(sid) ELSE TopLevel

\* The position of the first id of the group with the label.
FirstAppearance(label) ==
    SetMin({k \in 1..Len(section_ids) : GroupLabel(section_ids[k]) = label})

\* C28: detect_gaps returns, without raising, for ids whose last component
\* is no integer (such as page_7); those ids count for nothing in the gaps:
\* the records are those of the outline without them, and an outline of such
\* ids only has no record; there is at most one record for a parent, and the
\* records come in the order in which the parents first appear in the input.
C28_NonNumericTolerated ==
    Detected =>
        /\ \A k \in 1..Len(section_ids) :
              ~HasNumeral(section_ids[k]) =>
                  /\ int_of(LastComponent(section_ids[k])) = Raises("ValueError")
                  /\ get_numeric_last_component(section_ids[k]) = -1
        /\ Range(gaps) = Range(detect_gaps(NumericIds))
        /\ Len(gaps) = Len(detect_gaps(NumericIds))
        /\ (NumericIds = <<>> => gaps = <<>>)
        /\ \A i, j \in 1..Len(gaps) :
              /\ gaps[i][1] = gaps[j][1] => i = j
              /\ i < j => FirstAppearance(gaps[i][1]) < FirstAppearance(gaps[j][1])

\* An outline that opens with 2.x and holds 1 and 3: the gap of the parent 2
\* is missing since 2.x counts for nothing, and the gap at the top level is
\* reported.
C28_Witness ==
    /\ Detected
    /\ section_ids = <<S2_x, S1, S3>>
    /\ gaps = <<<<TopLevel, <<"2">>>>>>

\* An outline of page-fallback ids only has no gap record.
FallbackOutlineNoGaps ==
    /\ Detected
    /\ section_ids = <<Page7, Page9>>
    /\ gaps = <<>>

\* A parent that first appears with an id that is not numeric comes first.
ParentOrderKept ==
    /\ Detected
    /\ section_ids = <<S2_x, S1, S3, S2_1, S2_4>>
    /\ gaps = <<<<S2, <<"2", ".", "2", ",", " ", "2", ".", "3">>>>, <<TopLevel, <<"2">>>>>>

====
